---------------------------- MODULE Spec2Model ----------------------------
(***************************************************************************)
(* PoseGuard AI backend (src/backend/main.py): the biomechanical risk      *)
(* engine, the video processing pipeline with its event-detection state    *)
(* machine, the in-memory analysis store and the HTTP endpoints.           *)
(***************************************************************************)
EXTENDS Integers, Sequences, FiniteSets, TLC

VARIABLES
    analyses,   \* the in-memory analysis store, an insertion-ordered dict
    tasks,      \* one entry per upload: the background process_video run
    files,      \* the files under uploads/ and outputs/, path -> content
    resp,       \* the response of the latest step, where it served a read
    call        \* the pure function under evaluation: input and result

vars == <<analyses, tasks, files, resp, call>>

None == "None"

Max(a, b) == IF a >= b THEN a ELSE b
Min(a, b) == IF a <= b THEN a ELSE b

\* the function f on 1..n as a list whose elements are all computed
List(f) == f \o <<>>

\* body(v), with v computed once
Bind(v, body(_)) == CHOOSE r \in { body(x) : x \in {v} } : TRUE

(***************************************************************************)
(* Python dicts keep insertion order; assigning to an existing key keeps   *)
(* the key's position.  A dict is a sequence of <<key, value>> pairs.      *)
(***************************************************************************)
DictKeys(d) == List([i \in 1..Len(d) |-> d[i][1]])

DictHas(d, k) == \E i \in 1..Len(d) : d[i][1] = k

DictGet(d, k) == d[CHOOSE i \in 1..Len(d) : d[i][1] = k][2]

DictPut(d, k, v) ==
    IF DictHas(d, k)
    THEN List([i \in 1..Len(d) |-> IF d[i][1] = k THEN <<k, v>> ELSE d[i]])
    ELSE Append(d, <<k, v>>)

(***************************************************************************)
(* IEEE-754 double arithmetic on the values the composite score uses.      *)
(* Every double that occurs there is a non-negative multiple of 2^-60      *)
(* below 2^7 (the smallest weight, 0.04, has an ulp of 2^-57), so a double *)
(* is held exactly as its count of units of 2^-60: a natural number,       *)
(* written as little-endian limbs in base 2^15 without leading zero limbs. *)
(* Each operation is the exact result rounded to 53 significant bits,      *)
(* ties to even.                                                           *)
(***************************************************************************)
LimbBits == 15

Base == 2 ^ LimbBits

FracBits == 60

MantBits == 53

RECURSIVE BigNorm(_)
BigNorm(a) ==
    IF a = <<>> THEN a
    ELSE IF a[Len(a)] = 0 THEN BigNorm(SubSeq(a, 1, Len(a) - 1))
    ELSE a

\* a * k + c for a bignum a and small naturals k, c < Base
RECURSIVE BigMulAdd(_, _, _)
BigMulAdd(a, k, c) ==
    IF a = <<>> THEN (IF c = 0 THEN <<>> ELSE <<c>>)
    ELSE LET t == a[1] * k + c
         IN  BigNorm(<<t % Base>> \o BigMulAdd(Tail(a), k, t \div Base))

RECURSIVE BigAddC(_, _, _)
BigAddC(a, b, c) ==
    IF a = <<>> /\ b = <<>> THEN (IF c = 0 THEN <<>> ELSE <<c>>)
    ELSE LET x == IF a = <<>> THEN 0 ELSE a[1]
             y == IF b = <<>> THEN 0 ELSE b[1]
             t == x + y + c
         IN  <<t % Base>> \o BigAddC(IF a = <<>> THEN a ELSE Tail(a),
                                     IF b = <<>> THEN b ELSE Tail(b),
                                     t \div Base)

BigAdd(a, b) == BigNorm(BigAddC(a, b, 0))

\* a - b - c for a >= b + c
RECURSIVE BigSubC(_, _, _)
BigSubC(a, b, c) ==
    IF a = <<>> THEN <<>>
    ELSE LET y == IF b = <<>> THEN 0 ELSE b[1]
             t == a[1] - y - c
         IN  <<IF t < 0 THEN t + Base ELSE t>>
             \o BigSubC(Tail(a), IF b = <<>> THEN b ELSE Tail(b),
                        IF t < 0 THEN 1 ELSE 0)

BigSub(a, b) == BigNorm(BigSubC(a, b, 0))

\* -1, 0, 1 as a < b, a = b, a > b (both without leading zero limbs)
RECURSIVE BigCmpFrom(_, _, _)
BigCmpFrom(a, b, i) ==
    IF i = 0 THEN 0
    ELSE IF a[i] < b[i] THEN -1
    ELSE IF a[i] > b[i] THEN 1
    ELSE BigCmpFrom(a, b, i - 1)

BigCmp(a, b) ==
    IF Len(a) < Len(b) THEN -1
    ELSE IF Len(a) > Len(b) THEN 1
    ELSE BigCmpFrom(a, b, Len(a))

RECURSIVE BitLenSmall(_)
BitLenSmall(n) == IF n = 0 THEN 0 ELSE 1 + BitLenSmall(n \div 2)

BigBitLen(a) ==
    IF a = <<>> THEN 0
    ELSE LimbBits * (Len(a) - 1) + BitLenSmall(a[Len(a)])

BigBit(a, i) ==
    LET l == (i \div LimbBits) + 1
    IN  IF l > Len(a) THEN 0 ELSE (a[l] \div (2 ^ (i % LimbBits))) % 2

\* a * 2^n
BigShl(a, n) ==
    IF a = <<>> THEN a
    ELSE [i \in 1..(n \div LimbBits) |-> 0] \o BigMulAdd(a, 2 ^ (n % LimbBits), 0)

\* floor(a / 2^n)
RECURSIVE BigDivSmall(_, _)
BigDivSmall(a, k) ==
    \* <<quotient limbs, remainder>> of a by a small k, from the top limb down
    IF a = <<>> THEN <<<<>>, 0>>
    ELSE LET hi == BigDivSmall(Tail(a), k)
             t  == hi[2] * Base + a[1]
         IN  <<(<<t \div k>> \o hi[1]), t % k>>

BigShr(a, n) ==
    LET dropped == IF n \div LimbBits >= Len(a) THEN <<>>
                   ELSE SubSeq(a, (n \div LimbBits) + 1, Len(a))
    IN  BigNorm(BigDivSmall(dropped, 2 ^ (n % LimbBits))[1])

\* the exact value n (and whether digits below it were cut off: sticky)
\* rounded to MantBits significant bits, ties to even
Round53(n, sticky) ==
    IF BigBitLen(n) <= MantBits THEN n
    ELSE LET sh   == BigBitLen(n) - MantBits
             q    == BigShr(n, sh)
             r    == BigSub(n, BigShl(q, sh))
             half == BigShl(<<1>>, sh - 1)
             c    == BigCmp(r, half)
             up   == c = 1 \/ (c = 0 /\ (sticky \/ q[1] % 2 = 1))
         IN  BigShl(IF up THEN BigAdd(q, <<1>>) ELSE q, sh)

\* int * float: the integer converts exactly, the product is rounded
FMulInt(r, w) == Round53(BigMulAdd(w, r, 0), FALSE)

FAdd(a, b) == Round53(BigAdd(a, b), FALSE)

\* one step of binary long division: bit i of num is brought down to the
\* remainder qr[2] and the quotient qr[1] gets its next bit
DivStep(num, den, i, qr) ==
    LET r2 == BigMulAdd(qr[2], 2, BigBit(num, i))
        ge == BigCmp(r2, den) >= 0
    IN  <<BigMulAdd(qr[1], 2, IF ge THEN 1 ELSE 0),
          IF ge THEN BigSub(r2, den) ELSE r2>>

\* long division over bits hi down to lo of num, from the quotient and
\* remainder qr of the bits above hi; the upper half of the bits first
RECURSIVE DivBits(_, _, _, _, _)
DivBits(num, den, hi, lo, qr) ==
    IF hi < lo THEN qr
    ELSE IF hi = lo THEN DivStep(num, den, hi, qr)
    ELSE LET mid   == (hi + lo + 1) \div 2
             upper == DivBits(num, den, hi, mid, qr)
         IN  IF Len(upper) = 2
             THEN DivBits(num, den, mid - 1, lo, upper)
             ELSE upper

\* float / float for den > 0
FDiv(a, b) ==
    LET num == BigShl(a, FracBits)
        qr  == DivBits(num, b, BigBitLen(num) - 1, 0, <<<<>>, <<>>>>)
    IN  Round53(qr[1], qr[2] # <<>>)

\* int(x) for a non-negative double x below 2^15
FloatToInt(a) ==
    LET q == BigShr(a, FracBits)
    IN  IF q = <<>> THEN 0 ELSE q[1]

(***************************************************************************)
(* Biomechanical risk engine: analyze_person.  A detected person is given  *)
(* by the keypoints that are usable (confidence above CONF_THRESH and both *)
(* coordinates positive) and by the measured quantities the code derives   *)
(* from the keypoint geometry, in whole degrees or pixels.                 *)
(***************************************************************************)
Keypoints ==
    {"l_shoulder", "r_shoulder", "l_hip", "r_hip",
     "l_knee", "r_knee", "l_ankle", "r_ankle"}

Factors ==
    <<"L_ACL", "R_ACL", "L_Hip", "R_Hip", "Trunk",
      "Shoulder_Asym", "Hip_Asym", "L_Ankle", "R_Ankle">>

FACTOR_TO_PART ==
    [L_ACL |-> "knee", R_ACL |-> "knee", L_Hip |-> "hip", R_Hip |-> "hip",
     Trunk |-> "lower_back", Shoulder_Asym |-> "shoulder", Hip_Asym |-> "hip",
     L_Ankle |-> "ankle", R_Ankle |-> "ankle"]

\* the weights 0.25, 0.10, 0.12, 0.05, 0.04 as the doubles Python reads them
weights ==
    [L_ACL |-> <<0, 0, 0, 8192>>, R_ACL |-> <<0, 0, 0, 8192>>,
     L_Hip |-> <<6560, 13107, 26214, 3276>>, R_Hip |-> <<6560, 13107, 26214, 3276>>,
     Trunk |-> <<27520, 28835, 5242, 3932>>,
     Shoulder_Asym |-> <<19664, 6553, 13107, 1638>>,
     Hip_Asym |-> <<19664, 6553, 13107, 1638>>,
     L_Ankle |-> <<9176, 31457, 23592, 1310>>,
     R_Ankle |-> <<9176, 31457, 23592, 1310>>]

kp(person, name) == name \in person.usable

acl_risk(angle) ==
    IF angle < 120 THEN 90 ELSE IF angle < 140 THEN 60
    ELSE IF angle < 160 THEN 30 ELSE 0

hip_risk(angle) ==
    IF angle < 100 THEN 80 ELSE IF angle < 130 THEN 45
    ELSE IF angle < 150 THEN 20 ELSE 0

trunk_risk(lean) ==
    IF lean > 35 THEN 75 ELSE IF lean > 25 THEN 50
    ELSE IF lean > 15 THEN 25 ELSE 0

asym_risk(diff) ==
    IF diff > 40 THEN 70 ELSE IF diff > 25 THEN 40
    ELSE IF diff > 15 THEN 20 ELSE 0

ankle_risk(angle) ==
    IF angle > 120 THEN 60 ELSE IF angle > 110 THEN 30 ELSE 0

\* the entries that are not None, in order
Present(entries) == SelectSeq(entries, LAMBDA e : e # <<>>)

\* the risks dict of analyze_person, in insertion order
person_risks(person) ==
    LET has(ks) == \A k \in ks : kp(person, k)
        m == person.metric
    IN  Present(<<
          IF has({"l_hip", "l_knee", "l_ankle"})
            THEN <<"L_ACL", acl_risk(m.L_Knee)>> ELSE <<>>,
          IF has({"r_hip", "r_knee", "r_ankle"})
            THEN <<"R_ACL", acl_risk(m.R_Knee)>> ELSE <<>>,
          IF has({"l_shoulder", "l_hip", "l_knee"})
            THEN <<"L_Hip", hip_risk(m.L_Hip)>> ELSE <<>>,
          IF has({"r_shoulder", "r_hip", "r_knee"})
            THEN <<"R_Hip", hip_risk(m.R_Hip)>> ELSE <<>>,
          IF has({"l_shoulder", "r_shoulder", "l_hip", "r_hip"})
            THEN <<"Trunk", trunk_risk(m.Trunk)>> ELSE <<>>,
          IF has({"l_shoulder", "r_shoulder"})
            THEN <<"Shoulder_Asym", asym_risk(m.Shoulder_Diff)>> ELSE <<>>,
          IF has({"l_hip", "r_hip"})
            THEN <<"Hip_Asym", asym_risk(m.Hip_Diff)>> ELSE <<>>,
          IF has({"l_knee", "l_ankle"})
            THEN <<"L_Ankle", ankle_risk(m.L_AnkleAngle)>> ELSE <<>>,
          IF has({"r_knee", "r_ankle"})
            THEN <<"R_Ankle", ankle_risk(m.R_AnkleAngle)>> ELSE <<>> >>)

\* the details dict of analyze_person: the raw angles that were measured
person_details(person) ==
    LET has(ks) == \A k \in ks : kp(person, k)
        m == person.metric
    IN  Present(<<
          IF has({"l_hip", "l_knee", "l_ankle"})
            THEN <<"L_Knee", m.L_Knee>> ELSE <<>>,
          IF has({"r_hip", "r_knee", "r_ankle"})
            THEN <<"R_Knee", m.R_Knee>> ELSE <<>>,
          IF has({"l_shoulder", "l_hip", "l_knee"})
            THEN <<"L_Hip", m.L_Hip>> ELSE <<>>,
          IF has({"r_shoulder", "r_hip", "r_knee"})
            THEN <<"R_Hip", m.R_Hip>> ELSE <<>>,
          IF has({"l_shoulder", "r_shoulder", "l_hip", "r_hip"})
            THEN <<"Trunk", m.Trunk>> ELSE <<>> >>)

\* sum(term(k) for k in risks), the builtin sum: left to right from int 0,
\* acc being the sum of the terms before the i-th
RECURSIVE FSumFrom(_, _, _, _)
FSumFrom(risks, term(_), i, acc) ==
    IF i > Len(risks) THEN acc
    ELSE LET next == IF i = 1 THEN term(risks[i]) ELSE FAdd(acc, term(risks[i]))
         IN  IF BigBitLen(next) <= MantBits
             THEN FSumFrom(risks, term, i + 1, next)
             ELSE FSumFrom(risks, term, i + 1, Round53(next, FALSE))

composite_score(risks) ==
    LET total_weight == FSumFrom(risks, LAMBDA e : weights[e[1]], 1, <<>>)
        composite ==
            IF total_weight # <<>>
            THEN FDiv(FSumFrom(risks, LAMBDA e : FMulInt(e[2], weights[e[1]]),
                               1, <<>>),
                      total_weight)
            ELSE <<>>
    IN  Min(FloatToInt(composite), 100)

analyze_person(person) ==
    LET risks == person_risks(person)
    IN  [risks |-> risks, composite |-> composite_score(risks),
         details |-> person_details(person)]

(***************************************************************************)
(* The detected persons of the modelled video frames.                      *)
(***************************************************************************)
Standing ==
    [usable |-> Keypoints,
     metric |-> [L_Knee |-> 170, R_Knee |-> 170, L_Hip |-> 170, R_Hip |-> 170,
                 Trunk |-> 5, Shoulder_Diff |-> 5, Hip_Diff |-> 5,
                 L_AnkleAngle |-> 100, R_AnkleAngle |-> 100]]

Squat ==
    [usable |-> Keypoints,
     metric |-> [L_Knee |-> 110, R_Knee |-> 110, L_Hip |-> 95, R_Hip |-> 95,
                 Trunk |-> 40, Shoulder_Diff |-> 45, Hip_Diff |-> 45,
                 L_AnkleAngle |-> 125, R_AnkleAngle |-> 125]]

Lunge ==
    [usable |-> Keypoints,
     metric |-> [L_Knee |-> 130, R_Knee |-> 150, L_Hip |-> 120, R_Hip |-> 140,
                 Trunk |-> 30, Shoulder_Diff |-> 30, Hip_Diff |-> 20,
                 L_AnkleAngle |-> 115, R_AnkleAngle |-> 125]]

UpperBody ==
    [usable |-> {"l_shoulder", "r_shoulder"},
     metric |-> Squat.metric]

LowerLeg ==
    [usable |-> {"l_knee", "r_knee", "l_ankle", "r_ankle"},
     metric |-> Squat.metric]

Hips ==
    [usable |-> {"l_hip", "r_hip"},
     metric |-> Squat.metric]

\* the persons that occur in the frames of the modelled videos
PersonPool == {Standing, Squat, Lunge, UpperBody, LowerLeg, Hips}

\* analyze_person on the persons of the pool, evaluated once
analyzed == [p \in PersonPool |-> analyze_person(p)]

(***************************************************************************)
(* Helpers of the pipeline.                                                *)
(***************************************************************************)
\* as risk_severity, but a score on a threshold stays in the lower band
risk_severity_inclusive(score) ==
    IF score <= 30 THEN "LOW" ELSE IF score <= 60 THEN "MEDIUM"
    ELSE IF score <= 80 THEN "HIGH" ELSE "CRITICAL"

risk_severity(score) ==
    IF score < 30 THEN "LOW" ELSE IF score < 60 THEN "MEDIUM"
    ELSE IF score < 80 THEN "HIGH" ELSE "CRITICAL"

\* the label of the live webcam console
risk_label(s) ==
    IF s < 30 THEN "LOW" ELSE IF s < 60 THEN "MODERATE"
    ELSE IF s < 80 THEN "HIGH" ELSE "CRITICAL"

\* f"{mins}:{secs:02d}" of frame / fps, held as <<mins, secs>>; frame and fps
\* are whole numbers here, for which the float quotient truncates as \div does
frames_to_timestamp(frame, fps) ==
    LET seconds == frame \div fps
    IN  <<seconds \div 60, seconds % 60>>

\* the fixed suggestion texts, by what they are about
PartSuggestions ==
    <<"knee", "hip", "lower_back", "shoulder", "ankle">>

HighBand == "risk_high"

ModerateBand == "risk_moderate"

GoodForm == "good_form"

\* as generate_suggestions, but the two band tests are independent ifs
generate_suggestions_both_bands(events, avg_risk) ==
    LET parts_at_risk == { events[i].part : i \in 1..Len(events) }
        per_part == SelectSeq(PartSuggestions, LAMBDA p : p \in parts_at_risk)
        high == IF avg_risk.num > 60 * avg_risk.den THEN <<HighBand>> ELSE <<>>
        moderate == IF avg_risk.num > 40 * avg_risk.den THEN <<ModerateBand>> ELSE <<>>
        suggestions == per_part \o high \o moderate
    IN  IF suggestions = <<>> THEN <<GoodForm>> ELSE suggestions

\* as generate_suggestions, but an empty list is returned as it is
generate_suggestions_no_default(events, avg_risk) ==
    LET parts_at_risk == { events[i].part : i \in 1..Len(events) }
        per_part == SelectSeq(PartSuggestions, LAMBDA p : p \in parts_at_risk)
        band == IF avg_risk.num > 60 * avg_risk.den THEN <<HighBand>>
                ELSE IF avg_risk.num > 40 * avg_risk.den THEN <<ModerateBand>>
                ELSE <<>>
    IN  per_part \o band

\* avg_risk is the mean of whole numbers, held as the fraction num / den
generate_suggestions(events, avg_risk) ==
    LET parts_at_risk == { events[i].part : i \in 1..Len(events) }
        per_part == SelectSeq(PartSuggestions, LAMBDA p : p \in parts_at_risk)
        band == IF avg_risk.num > 60 * avg_risk.den THEN <<HighBand>>
                ELSE IF avg_risk.num > 40 * avg_risk.den THEN <<ModerateBand>>
                ELSE <<>>
        suggestions == per_part \o band
    IN  IF suggestions = <<>> THEN <<GoodForm>> ELSE suggestions

(***************************************************************************)
(* Event detection of process_video: one state per risk factor.            *)
(***************************************************************************)
NoAngle == <<>>

NewFactorState ==
    [active |-> FALSE, start_frame |-> 0, peak_risk |-> 0, peak_frame |-> 0,
     peak_angle |-> NoAngle]

detail_key(factor) ==
    CASE factor = "L_ACL" -> "L_Knee"
      [] factor = "R_ACL" -> "R_Knee"
      [] factor = "L_Hip" -> "L_Hip"
      [] factor = "R_Hip" -> "R_Hip"
      [] factor = "Trunk" -> "Trunk"
      [] OTHER -> None

\* frame_details_all.get(detail_key)
detail_angle(details, factor) ==
    IF DictHas(details, detail_key(factor))
    THEN <<DictGet(details, detail_key(factor))>>
    ELSE NoAngle

\* the RiskEvent of a factor's recorded peak; the description text is
\* distinct for each factor and is held as the factor's name
risk_event(factor, state, fps) ==
    [timestamp |-> frames_to_timestamp(state.peak_frame, fps),
     frame |-> state.peak_frame,
     risk |-> state.peak_risk,
     part |-> FACTOR_TO_PART[factor],
     severity |-> risk_severity(state.peak_risk),
     description |-> factor,
     angle |-> state.peak_angle]

\* as factor_update, but a value equal to the peak moves the peak
factor_update_last_peak(state, risk_val, frame_count, angle) ==
    IF risk_val >= 30 /\ ~state.active
    THEN [active |-> TRUE, start_frame |-> frame_count, peak_risk |-> risk_val,
          peak_frame |-> frame_count, peak_angle |-> angle]
    ELSE IF risk_val >= 30 /\ state.active
    THEN IF risk_val >= state.peak_risk
         THEN [state EXCEPT !.peak_risk = risk_val, !.peak_frame = frame_count,
                            !.peak_angle = angle]
         ELSE state
    ELSE IF risk_val < 30 /\ state.active
    THEN [state EXCEPT !.active = FALSE]
    ELSE state

\* the factor's state after a frame that reports risk_val for it
factor_update(state, risk_val, frame_count, angle) ==
    IF risk_val >= 30 /\ ~state.active
    THEN [active |-> TRUE, start_frame |-> frame_count, peak_risk |-> risk_val,
          peak_frame |-> frame_count, peak_angle |-> angle]
    ELSE IF risk_val >= 30 /\ state.active
    THEN IF risk_val > state.peak_risk
         THEN [state EXCEPT !.peak_risk = risk_val, !.peak_frame = frame_count,
                            !.peak_angle = angle]
         ELSE state
    ELSE IF risk_val < 30 /\ state.active
    THEN [state EXCEPT !.active = FALSE]
    ELSE state

\* whether that frame appends the factor's event
factor_emits(state, risk_val) == risk_val < 30 /\ state.active

\* as detect_events, but a factor that the frame does not report is reset
detect_events_reset(items, details, frame_count, fps, factor_states, risk_events) ==
    LET state_of(f) == IF DictHas(factor_states, f)
                       THEN DictGet(factor_states, f) ELSE NewFactorState
        after(f) == <<f, IF DictHas(items, f)
                         THEN factor_update(state_of(f), DictGet(items, f),
                                            frame_count, detail_angle(details, f))
                         ELSE NewFactorState>>
    IN  << Bind(SelectSeq(items, LAMBDA kv : ~DictHas(factor_states, kv[1])),
                LAMBDA added :
                    List([i \in 1..Len(factor_states) |-> after(factor_states[i][1])])
                    \o List([i \in 1..Len(added) |-> after(added[i][1])])),
           Bind(SelectSeq(items, LAMBDA kv : factor_emits(state_of(kv[1]), kv[2])),
                LAMBDA ended :
                    risk_events \o
                    List([i \in 1..Len(ended) |->
                        risk_event(ended[i][1], state_of(ended[i][1]), fps)])) >>

\* the loop over frame_risks_all.items(): <<factor_states, risk_events>>
\* after it.  A factor occurs once in items, so each factor's state changes
\* on its own: a factor seen for the first time is added behind the others.
detect_events(items, details, frame_count, fps, factor_states, risk_events) ==
    LET state_of(f) == IF DictHas(factor_states, f)
                       THEN DictGet(factor_states, f) ELSE NewFactorState
        after(f) == <<f, IF DictHas(items, f)
                         THEN factor_update(state_of(f), DictGet(items, f),
                                            frame_count, detail_angle(details, f))
                         ELSE state_of(f)>>
    IN  << Bind(SelectSeq(items, LAMBDA kv : ~DictHas(factor_states, kv[1])),
                LAMBDA added :
                    List([i \in 1..Len(factor_states) |-> after(factor_states[i][1])])
                    \o List([i \in 1..Len(added) |-> after(added[i][1])])),
           Bind(SelectSeq(items, LAMBDA kv : factor_emits(state_of(kv[1]), kv[2])),
                LAMBDA ended :
                    risk_events \o
                    List([i \in 1..Len(ended) |->
                        risk_event(ended[i][1], state_of(ended[i][1]), fps)])) >>

\* as flush_events, but for every factor with a recorded peak, active or not
flush_events_any_peak(factor_states, fps) ==
    LET active == SelectSeq(factor_states, LAMBDA kv : kv[2].peak_risk >= 30)
    IN  List([i \in 1..Len(active) |-> risk_event(active[i][1], active[i][2], fps)])

\* as flush_events, but nothing is flushed after the last frame
flush_events_none(factor_states, fps) == <<>>

\* the events of the factors still active after the last frame
flush_events(factor_states, fps) ==
    LET active == SelectSeq(factor_states,
                      LAMBDA kv : kv[2].active /\ kv[2].peak_risk >= 30)
    IN  List([i \in 1..Len(active) |-> risk_event(active[i][1], active[i][2], fps)])

\* as sorted_by_risk, but by ascending risk
sorted_by_risk_ascending(events) ==
    LET n == Len(events)
        pos(i) == Cardinality({ j \in 1..n : events[j].risk < events[i].risk })
                  + Cardinality({ j \in 1..i : events[j].risk = events[i].risk })
    IN  List([k \in 1..n |-> events[CHOOSE i \in 1..n : pos(i) = k]])

\* sorted(risk_events, key=lambda x: -x["risk"]): stable
sorted_by_risk(events) ==
    LET n == Len(events)
        pos(i) == Cardinality({ j \in 1..n : events[j].risk > events[i].risk })
                  + Cardinality({ j \in 1..i : events[j].risk = events[i].risk })
    IN  List([k \in 1..n |-> events[CHOOSE i \in 1..n : pos(i) = k]])

event_key(e) == <<e.timestamp, e.part>>

\* the loop over the sorted events: those whose key no earlier one has
unseen_keys(sorted) ==
    LET first == SelectSeq([k \in 1..Len(sorted) |-> k],
                     LAMBDA k : \A j \in 1..(k - 1) :
                                   event_key(sorted[j]) # event_key(sorted[k]))
    IN  List([m \in 1..Len(first) |-> sorted[first[m]]])

\* the first event of every (timestamp, part) key, in the sorted order
deduplicate(risk_events) == Bind(sorted_by_risk(risk_events), unseen_keys)

MAX_EVENTS == 20

\* as top_events, but the whole list
top_events_uncut(unique_events) == unique_events

\* unique_events[:20]
top_events(unique_events) ==
    SubSeq(unique_events, 1, Min(Len(unique_events), MAX_EVENTS))

RECURSIVE SumSeq(_)
SumSeq(s) == IF s = <<>> THEN 0 ELSE s[1] + SumSeq(Tail(s))

MaxSeq(s) == CHOOSE m \in { s[i] : i \in 1..Len(s) } : \A i \in 1..Len(s) : s[i] <= m

(***************************************************************************)
(* Files and the analysis store.                                           *)
(***************************************************************************)
upload_path(video_id) == <<"uploads", video_id, ".mp4">>

output_raw(video_id) == <<"outputs", video_id, "_raw.mp4">>

h264_path(video_id) == <<"outputs", video_id, ".mp4">>

\* files is a set of <<path, content>>, one entry for a path
path_exists(fs, path) == \E f \in fs : f[1] = path

file_content(fs, path) == (CHOOSE f \in fs : f[1] = path)[2]

write_file(fs, path, content) ==
    { f \in fs : f[1] # path } \cup { <<path, content>> }

remove_file(fs, path) == { f \in fs : f[1] # path }

rename_file(fs, src, dst) ==
    write_file(remove_file(fs, src), dst, file_content(fs, src))

Processing(video_id) == [status |-> "processing", videoId |-> video_id]

ErrorRecord(video_id, error) ==
    [status |-> "error", videoId |-> video_id, error |-> error]

\* the record of a finished run; duration and pose_keypoints, which no
\* other part of the program reads, are not carried
DoneRecord(task) ==
    [status |-> "done",
     videoId |-> task.vid,
     sport |-> "general",
     playerName |-> "Athlete",
     overallRisk |-> task.overall_risk,
     overallSeverity |-> risk_severity(task.overall_risk),
     fps |-> task.fps,
     risks |-> top_events(task.unique_events),
     suggestions |-> task.suggestions,
     riskTimeline |-> task.all_risk_scores,
     annotatedVideoUrl |-> h264_path(task.vid),
     totalFrames |-> task.frame_count,
     peakRisk |-> task.peak_risk]

\* resp when the latest step served no read request
NoResponse == [endpoint |-> "none", id |-> "", code |-> 0, body |-> <<>>]

\* a background task as upload_video adds it
NewTask(video_id) ==
    [vid |-> video_id, pc |-> "respond", fps |-> 30, writer_ok |-> FALSE,
     frame_count |-> 0, detections |-> <<>>, all_risk_scores |-> <<>>,
     reported |-> <<>>,
     factor_states |-> <<>>, risk_events |-> <<>>, unique_events |-> <<>>,
     overall_risk |-> 0, peak_risk |-> 0, suggestions |-> <<>>,
     ffmpeg_runs |-> 0, ffmpeg_ok |-> FALSE]

\* process_video has returned: its locals are gone
Finished(task) == [NewTask(task.vid) EXCEPT !.pc = "finished"]

\* where the background task of upload t stands; no such upload: "absent"
pc(t) == IF t \in 1..Len(tasks) THEN tasks[t].pc ELSE "absent"

(***************************************************************************)
(* POST /upload and the background run of process_video.                   *)
(***************************************************************************)
\* uuid4().hex[:8], the file copy, the placeholder and add_task
upload_video(ids, max_uploads) ==
    /\ Len(tasks) < max_uploads
    /\ \E video_id \in ids :
         /\ files' = write_file(files, upload_path(video_id), "upload")
         /\ analyses' = DictPut(analyses, video_id, Processing(video_id))
         /\ tasks' = Append(tasks, NewTask(video_id))
    /\ resp' = NoResponse /\ UNCHANGED call

\* the UploadResponse is returned; the background task may run from here on
upload_respond(t) ==
    /\ pc(t) = "respond"
    /\ tasks' = [tasks EXCEPT ![t].pc = "queued"]
    /\ resp' = NoResponse /\ UNCHANGED <<analyses, files, call>>

\* cap.isOpened() is false: the error record, and the run is over
open_fails(t) ==
    /\ pc(t) = "queued"
    /\ analyses' = DictPut(analyses, tasks[t].vid,
                           ErrorRecord(tasks[t].vid, "Could not open video file"))
    /\ tasks' = [tasks EXCEPT ![t] = Finished(tasks[t])]
    /\ resp' = NoResponse /\ UNCHANGED <<files, call>>

\* the video opens: fps (30 when the property reads 0) and the raw writer,
\* which creates its file unless the writer fails to open
open_video(t, fps_values, writer_outcomes) ==
    /\ pc(t) = "queued"
    /\ \E raw_fps \in fps_values, writer_ok \in writer_outcomes :
         /\ tasks' = [tasks EXCEPT ![t].pc = "frames",
                                   ![t].fps = IF raw_fps = 0 THEN 30 ELSE raw_fps,
                                   ![t].writer_ok = writer_ok]
         /\ files' = IF writer_ok
                     THEN write_file(files, output_raw(tasks[t].vid), "mp4v")
                     ELSE files
    /\ resp' = NoResponse /\ UNCHANGED <<analyses, call>>

\* as frame_max, but the composite of the person iterated last
frame_max_last_person(persons) ==
    IF persons = <<>> THEN 0 ELSE analyzed[persons[Len(persons)]].composite

\* max composite over the persons of a frame, from frame_max_risk = 0
RECURSIVE frame_max(_)
frame_max(persons) ==
    IF persons = <<>> THEN 0
    ELSE Max(analyzed[persons[Len(persons)]].composite,
             frame_max(SubSeq(persons, 1, Len(persons) - 1)))

\* one iteration of the while loop on a frame whose detection is persons
process_frame(t, persons, max_frames) ==
    LET task == tasks[t]
        frame_count == task.frame_count + 1
        frame_max_risk == frame_max(persons)
        last == analyzed[persons[Len(persons)]]
        frame_risks_all == IF persons = <<>> THEN <<>> ELSE last.risks
        frame_details_all == IF persons = <<>> THEN <<>> ELSE last.details
    IN  /\ pc(t) = "frames"
        /\ task.frame_count < max_frames
        /\ \E detected \in { detect_events(frame_risks_all, frame_details_all,
                                   frame_count, task.fps,
                                   task.factor_states, task.risk_events) } :
             tasks' = [tasks EXCEPT
                 ![t].frame_count = frame_count,
                 ![t].detections = Append(task.detections, persons),
                 ![t].all_risk_scores = Append(task.all_risk_scores, frame_max_risk),
                 ![t].reported = Append(task.reported, frame_risks_all),
                 ![t].factor_states = detected[1],
                 ![t].risk_events = detected[2]]
        /\ resp' = NoResponse /\ UNCHANGED <<analyses, files, call>>

\* cap.read() fails: release, flush, deduplication, stats, suggestions
end_of_video(t) ==
    LET task == tasks[t]
        scores_arr == IF task.all_risk_scores # <<>>
                      THEN task.all_risk_scores ELSE <<0>>
        mean == [num |-> SumSeq(scores_arr), den |-> Len(scores_arr)]
    IN  /\ pc(t) = "frames"
        /\ \E risk_events \in
                 { task.risk_events \o flush_events(task.factor_states, task.fps) } :
             \E unique_events \in { deduplicate(risk_events) } :
               tasks' = [tasks EXCEPT
                 ![t].pc = "encode",
                 ![t].risk_events = risk_events,
                 ![t].unique_events = unique_events,
                 ![t].overall_risk = mean.num \div mean.den,
                 ![t].peak_risk = MaxSeq(scores_arr),
                 ![t].suggestions = generate_suggestions(unique_events, mean)]
        /\ resp' = NoResponse /\ UNCHANGED <<analyses, files, call>>

\* subprocess.run starts ffmpeg, which opens its input and then creates its
\* output file (-y: over a file that is there)
ffmpeg_start(t) ==
    /\ pc(t) = "encode"
    /\ tasks' = [tasks EXCEPT ![t].pc = "ffmpeg",
                              ![t].ffmpeg_runs = tasks[t].ffmpeg_runs + 1]
    /\ files' = IF path_exists(files, output_raw(tasks[t].vid))
                THEN write_file(files, h264_path(tasks[t].vid), "partial")
                ELSE files
    /\ resp' = NoResponse /\ UNCHANGED <<analyses, call>>

\* ffmpeg cannot be started: the exception is caught, ffmpeg_ok = False
ffmpeg_missing(t) ==
    /\ pc(t) = "encode"
    /\ tasks' = [tasks EXCEPT ![t].pc = "replace", ![t].ffmpeg_ok = FALSE]
    /\ resp' = NoResponse /\ UNCHANGED <<analyses, files, call>>

\* ffmpeg exits with 0 and a complete output
ffmpeg_succeeds(t) ==
    /\ pc(t) = "ffmpeg"
    /\ path_exists(files, output_raw(tasks[t].vid))
    /\ files' = write_file(files, h264_path(tasks[t].vid), "h264")
    /\ tasks' = [tasks EXCEPT ![t].pc = "replace",
                              ![t].ffmpeg_ok = path_exists(files', h264_path(tasks[t].vid))]
    /\ resp' = NoResponse /\ UNCHANGED <<analyses, call>>

\* ffmpeg exits with an error or is killed at the timeout: the exception is
\* caught, ffmpeg_ok = False, and what ffmpeg wrote so far stays
ffmpeg_fails(t) ==
    /\ pc(t) = "ffmpeg"
    /\ tasks' = [tasks EXCEPT ![t].pc = "replace", ![t].ffmpeg_ok = FALSE]
    /\ resp' = NoResponse /\ UNCHANGED <<analyses, files, call>>

\* os.remove(output_raw), or the fallback os.rename(output_raw, h264_path);
\* not enabled where os.remove raises, which is pipeline_error
replace_output(t) ==
    LET vid == tasks[t].vid
    IN  /\ pc(t) = "replace"
        /\ tasks[t].ffmpeg_ok => path_exists(files, output_raw(vid))
        /\ files' = IF tasks[t].ffmpeg_ok
                    THEN remove_file(files, output_raw(vid))
                    ELSE IF path_exists(files, output_raw(vid))
                    THEN rename_file(files, output_raw(vid), h264_path(vid))
                    ELSE files
        /\ tasks' = [tasks EXCEPT ![t].pc = "store"]
        /\ resp' = NoResponse /\ UNCHANGED <<analyses, call>>

\* as store_done, but the entry is set to done before its fields are filled
store_done_status_first(t) ==
    /\ pc(t) = "store"
    /\ analyses' = DictPut(analyses, tasks[t].vid,
                           [status |-> "done", videoId |-> tasks[t].vid])
    /\ tasks' = [tasks EXCEPT ![t] = Finished(tasks[t])]
    /\ resp' = NoResponse /\ UNCHANGED <<files, call>>

\* analyses[video_id] = {"status": "done", ...}
store_done(t) ==
    /\ pc(t) = "store"
    /\ analyses' = DictPut(analyses, tasks[t].vid, DoneRecord(tasks[t]))
    /\ tasks' = [tasks EXCEPT ![t] = Finished(tasks[t])]
    /\ resp' = NoResponse /\ UNCHANGED <<files, call>>

\* as pipeline_error, but the exception ends the task with no record written
pipeline_error_unrecorded(t) ==
    /\ pc(t) \in {"queued", "frames", "replace"}
    /\ tasks' = [tasks EXCEPT ![t] = Finished(tasks[t])]
    /\ resp' = NoResponse /\ UNCHANGED <<analyses, files, call>>

\* an exception outside the transcoder's own try: the outer except
pipeline_error(t) ==
    /\ pc(t) \in {"queued", "frames", "replace"}
    /\ analyses' = DictPut(analyses, tasks[t].vid,
                           ErrorRecord(tasks[t].vid, "exception"))
    /\ tasks' = [tasks EXCEPT ![t] = Finished(tasks[t])]
    /\ resp' = NoResponse /\ UNCHANGED <<files, call>>

\* the steps of the background task of upload t
pipeline_step(t, fps_values, writer_outcomes, frame_inputs, max_frames) ==
    \/ upload_respond(t)
    \/ open_fails(t)
    \/ open_video(t, fps_values, writer_outcomes)
    \/ \E persons \in frame_inputs : process_frame(t, persons, max_frames)
    \/ end_of_video(t)
    \/ ffmpeg_start(t)
    \/ ffmpeg_missing(t)
    \/ ffmpeg_succeeds(t)
    \/ ffmpeg_fails(t)
    \/ replace_output(t)
    \/ store_done(t)
    \/ pipeline_error(t)

(***************************************************************************)
(* Read endpoints.                                                         *)
(***************************************************************************)
\* GET /analysis/{video_id}
get_analysis(video_id) ==
    /\ resp' = IF DictHas(analyses, video_id)
               THEN [endpoint |-> "analysis", id |-> video_id, code |-> 200,
                     body |-> DictGet(analyses, video_id)]
               ELSE [endpoint |-> "analysis", id |-> video_id, code |-> 404,
                     body |-> <<>>]
    /\ UNCHANGED <<analyses, tasks, files, call>>

\* GET /outputs/{video_id}.mp4: the file as it is at the time of the request
get_annotated_video(video_id) ==
    /\ resp' = IF path_exists(files, h264_path(video_id))
               THEN [endpoint |-> "outputs", id |-> video_id, code |-> 200,
                     body |-> [content |-> file_content(files, h264_path(video_id)),
                               media_type |-> "video/mp4",
                               accept_ranges |-> "bytes",
                               max_age |-> 3600]]
               ELSE [endpoint |-> "outputs", id |-> video_id, code |-> 404,
                     body |-> <<>>]
    /\ UNCHANGED <<analyses, tasks, files, call>>

(***************************************************************************)
(* POST /chat/{video_id}.  A text is the sequence of its characters.       *)
(***************************************************************************)
UpperCase ==
    <<"A", "B", "C", "D", "E", "F", "G", "H", "I", "J", "K", "L", "M",
      "N", "O", "P", "Q", "R", "S", "T", "U", "V", "W", "X", "Y", "Z">>

LowerCase ==
    <<"a", "b", "c", "d", "e", "f", "g", "h", "i", "j", "k", "l", "m",
      "n", "o", "p", "q", "r", "s", "t", "u", "v", "w", "x", "y", "z">>

\* str.lower(), on texts of ASCII letters and other characters
lower(text) ==
    List([i \in 1..Len(text) |->
        IF \E k \in 1..Len(UpperCase) : UpperCase[k] = text[i]
        THEN LowerCase[CHOOSE k \in 1..Len(UpperCase) : UpperCase[k] = text[i]]
        ELSE text[i]])

\* kw in text
substring_in(kw, text) ==
    \E i \in 1..(Len(text) - Len(kw) + 1) : SubSeq(text, i, i + Len(kw) - 1) = kw

part_keywords ==
    << <<"knee",
         <<<<"k", "n", "e", "e">>,
           <<"a", "c", "l">>,
           <<"v", "a", "l", "g", "u", "s">>>> >>,
       <<"hip",
         <<<<"h", "i", "p">>>> >>,
       <<"lower_back",
         <<<<"b", "a", "c", "k">>,
           <<"l", "u", "m", "b", "a", "r">>,
           <<"s", "p", "i", "n", "e">>,
           <<"t", "r", "u", "n", "k">>>> >>,
       <<"shoulder",
         <<<<"s", "h", "o", "u", "l", "d", "e", "r">>,
           <<"r", "o", "t", "a", "t", "i", "o", "n">>>> >>,
       <<"ankle",
         <<<<"a", "n", "k", "l", "e">>,
           <<"d", "o", "r", "s", "i", "f", "l", "e", "x", "i", "o", "n">>>> >> >>

\* the words of the overview test
overview_words ==
    << <<"o", "v", "e", "r", "a", "l", "l">>,
       <<"s", "u", "m", "m", "a", "r", "y">>,
       <<"a", "s", "s", "e", "s", "s", "m", "e", "n", "t">> >>

\* data.get(key, default)
get(data, key, default) == IF key \in DOMAIN data THEN data[key] ELSE default

\* any(kw in text for kw in keywords) for the part of the risk
risk_matches(risk, text) ==
    \E p \in 1..Len(part_keywords) :
        /\ risk.part = part_keywords[p][1]
        /\ \E k \in 1..Len(part_keywords[p][2]) :
             substring_in(part_keywords[p][2][k], text)

\* max(risks, key=lambda x: x["risk"]): the first of the highest risk
max_risk(risks) ==
    risks[CHOOSE i \in 1..Len(risks) :
              /\ \A j \in 1..Len(risks) : risks[j].risk <= risks[i].risk
              /\ \A j \in 1..(i - 1) : risks[j].risk < risks[i].risk]

\* a read json value that is absent or None
NoValue == <<>>

\* a ChatResponse; confidence is held in hundredths, and a reply by its
\* template and the values the template is filled with
ChatResponse(reply, confidence, relatedTimestamp) ==
    [reply |-> reply, confidence |-> confidence,
     relatedTimestamp |-> relatedTimestamp]

StillProcessing == ChatResponse([template |-> "processing"], 50, NoValue)

\* the reply about the matched event of the highest risk
part_reply(risks, top) ==
    [template |-> "part",
     part_name |-> top.part,
     timestamp |-> top.timestamp,
     risk |-> top.risk,
     severity |-> top.severity,
     description |-> top.description,
     angle |-> IF top.angle # NoAngle /\ top.angle[1] # 0
               THEN top.angle ELSE NoValue,
     related |-> Len(SelectSeq(risks, LAMBDA r : r.part = top.part /\ r # top))]

\* the first lines of the reply on the session's highest risk
top_line(risks) ==
    IF risks # <<>>
    THEN <<[part |-> max_risk(risks).part,
            timestamp |-> max_risk(risks).timestamp,
            risk |-> max_risk(risks).risk]>>
    ELSE NoValue

overview_reply(data, risks) ==
    [template |-> "overview",
     overall |-> data.overallRisk,
     severity |-> data.overallSeverity,
     total_events |-> Len(risks),
     high_events |-> Len(SelectSeq(risks,
                          LAMBDA r : r.severity \in {"HIGH", "CRITICAL"})),
     top |-> top_line(risks),
     suggestions |-> SubSeq(get(data, "suggestions", <<>>), 1,
                            Min(3, Len(get(data, "suggestions", <<>>))))]

default_reply(risks) ==
    IF risks # <<>>
    THEN [template |-> "session", total_events |-> Len(risks),
          top |-> top_line(risks)]
    ELSE [template |-> "no_risks"]

\* a KeyError in the handler: the framework answers 500
ServerError == [code |-> 500, body |-> NoValue]

\* as chat_response, but only a processing entry gets the fixed reply
chat_response_processing_only(entry, message) ==
    IF entry = <<>> \/ get(entry[1], "status", NoValue) = "processing"
    THEN [code |-> 200, body |-> StillProcessing]
    ELSE LET data == entry[1]
             text == lower(message)
             risks == get(data, "risks", <<>>)
             matched_risks == SelectSeq(risks, LAMBDA r : risk_matches(r, text))
         IN  IF matched_risks # <<>>
             THEN [code |-> 200,
                   body |-> ChatResponse(part_reply(risks, max_risk(matched_risks)),
                                92, max_risk(matched_risks).timestamp)]
             ELSE IF \E w \in 1..Len(overview_words) :
                        substring_in(overview_words[w], text)
             THEN IF {"overallRisk", "overallSeverity"} \subseteq DOMAIN data
                  THEN [code |-> 200,
                        body |-> ChatResponse(overview_reply(data, risks), 93, NoValue)]
                  ELSE ServerError
             ELSE [code |-> 200,
                   body |-> ChatResponse(default_reply(risks), 85, NoValue)]

\* as chat_response, but the overview test comes before the matched events
chat_response_overview_first(entry, message) ==
    IF entry = <<>> \/ get(entry[1], "status", NoValue) # "done"
    THEN [code |-> 200, body |-> StillProcessing]
    ELSE LET data == entry[1]
             text == lower(message)
             risks == get(data, "risks", <<>>)
             matched_risks == SelectSeq(risks, LAMBDA r : risk_matches(r, text))
         IN  IF \E w \in 1..Len(overview_words) :
                   substring_in(overview_words[w], text)
             THEN IF {"overallRisk", "overallSeverity"} \subseteq DOMAIN data
                  THEN [code |-> 200,
                        body |-> ChatResponse(overview_reply(data, risks), 93, NoValue)]
                  ELSE ServerError
             ELSE IF matched_risks # <<>>
             THEN [code |-> 200,
                   body |-> ChatResponse(part_reply(risks, max_risk(matched_risks)),
                                92, max_risk(matched_risks).timestamp)]
             ELSE [code |-> 200,
                   body |-> ChatResponse(default_reply(risks), 85, NoValue)]

\* the handler on analyses.get(video_id), held as <<>> or <<data>>
chat_response(entry, message) ==
    IF entry = <<>> \/ get(entry[1], "status", NoValue) # "done"
    THEN [code |-> 200, body |-> StillProcessing]
    ELSE LET data == entry[1]
             text == lower(message)
             risks == get(data, "risks", <<>>)
             matched_risks == SelectSeq(risks, LAMBDA r : risk_matches(r, text))
         IN  IF matched_risks # <<>>
             THEN [code |-> 200,
                   body |-> ChatResponse(part_reply(risks, max_risk(matched_risks)),
                                92, max_risk(matched_risks).timestamp)]
             ELSE IF \E w \in 1..Len(overview_words) :
                        substring_in(overview_words[w], text)
             THEN IF {"overallRisk", "overallSeverity"} \subseteq DOMAIN data
                  THEN [code |-> 200,
                        body |-> ChatResponse(overview_reply(data, risks), 93, NoValue)]
                  ELSE ServerError
             ELSE [code |-> 200,
                   body |-> ChatResponse(default_reply(risks), 85, NoValue)]

\* POST /chat/{video_id} with the message text
chat_with_ai(video_id, message) ==
    /\ \E answer \in { chat_response(IF DictHas(analyses, video_id)
                                      THEN <<DictGet(analyses, video_id)>>
                                      ELSE <<>>, message) } :
         resp' = [endpoint |-> "chat", id |-> video_id, message |-> message,
                  code |-> answer.code, body |-> answer.body]
    /\ UNCHANGED <<analyses, tasks, files, call>>

(***************************************************************************)
(* GET /players/{player_id}.                                               *)
(***************************************************************************)
\* the drills of get_player in their order, each with the part it is for
drill_catalog ==
    << [part |-> "knee", name |-> "Single-Leg Squat Stabilizer",
        description |-> "Strengthen VMO and glute medius to correct knee valgus pattern.",
        duration |-> "15 min", frequency |-> "Daily", targetArea |-> "Knee",
        difficulty |-> "Intermediate", riskReduction |-> 23],
       [part |-> "shoulder", name |-> "Rotator Cuff Band Series",
        description |-> "External/internal rotation with resistance band for shoulder stability.",
        duration |-> "10 min", frequency |-> "Pre-session", targetArea |-> "Shoulder",
        difficulty |-> "Beginner", riskReduction |-> 15],
       [part |-> "lower_back", name |-> "Anti-Extension Core Circuit",
        description |-> "Dead bugs, pallof press, and bird-dogs for lumbar stability.",
        duration |-> "20 min", frequency |-> "3x/week", targetArea |-> "Lower Back",
        difficulty |-> "Advanced", riskReduction |-> 19],
       [part |-> "hip", name |-> "Hip Mobility & Activation",
        description |-> "Banded hip circles, clamshells, and hip flexor stretches.",
        duration |-> "12 min", frequency |-> "Daily", targetArea |-> "Hip",
        difficulty |-> "Beginner", riskReduction |-> 18] >>

\* a drill of the catalog as it is returned
drill(id, entry) ==
    [id |-> id, name |-> entry.name, description |-> entry.description,
     duration |-> entry.duration, frequency |-> entry.frequency,
     targetArea |-> entry.targetArea, difficulty |-> entry.difficulty,
     riskReduction |-> entry.riskReduction]

\* as select_drills, but a drill's id is its place in the catalog
select_drills_catalog_ids(injury_zones) ==
    LET places == SelectSeq([k \in 1..Len(drill_catalog) |-> k],
                      LAMBDA k : \E z \in 1..Len(injury_zones) :
                                    injury_zones[z].part = drill_catalog[k].part)
    IN  List([k \in 1..Len(places) |-> drill(places[k], drill_catalog[places[k]])])

\* the four ifs on the injury zones: drill_id goes up by one with every
\* drill that is appended, so the k-th drill appended has id k
select_drills(injury_zones) ==
    LET places == SelectSeq([k \in 1..Len(drill_catalog) |-> k],
                      LAMBDA k : \E z \in 1..Len(injury_zones) :
                                    injury_zones[z].part = drill_catalog[k].part)
    IN  List([k \in 1..Len(places) |-> drill(k, drill_catalog[places[k]])])

\* the risks of the completed analyses, one list after the other
RECURSIVE session_risks(_)
session_risks(completed) ==
    IF completed = <<>> THEN <<>>
    ELSE get(completed[1], "risks", <<>>) \o session_risks(Tail(completed))

\* injury_counts and the zones built from it: one zone for every part, in
\* the order in which the parts first occur
injury_zones_of(risks) ==
    LET first == SelectSeq([k \in 1..Len(risks) |-> k],
                     LAMBDA k : \A j \in 1..(k - 1) : risks[j].part # risks[k].part)
        zone(part) ==
            LET own == SelectSeq(risks, LAMBDA r : r.part = part)
                avg == SumSeq(List([k \in 1..Len(own) |-> own[k].risk])) \div Len(own)
            IN  [part |-> part, risk |-> avg,
                 trend |-> IF avg > 50 THEN "increasing"
                           ELSE IF avg > 30 THEN "stable" ELSE "decreasing"]
    IN  List([k \in 1..Len(first) |-> zone(risks[first[k]].part)])

\* the entries of session i + 1 in riskHistory and pastMatches
risk_history_entry(i, a) ==
    [date |-> <<"Session", i + 1>>, risk |-> a.overallRisk,
     label |-> <<"Session", i + 1>>]

past_match(i, a) ==
    [date |-> <<"Session", i + 1>>,
     opponent |-> get(a, "sport", "General"),
     riskScore |-> a.overallRisk,
     status |-> "Completed",
     highlights |-> IF get(a, "risks", <<>>) # <<>>
                    THEN <<max_risk(a.risks).part, max_risk(a.risks).risk>>
                    ELSE <<"Analysis complete">>]

\* lst[-10:]
last_ten(lst) == SubSeq(lst, Max(1, Len(lst) - 9), Len(lst))

\* as player_profile, but the two histories are cut to their first ten
player_profile_first_ten(store, player_id) ==
    LET completed == SelectSeq(List([i \in 1..Len(store) |-> store[i][2]]),
                         LAMBDA a : get(a, "status", NoValue) = "done")
        injury_zones == injury_zones_of(session_risks(completed))
    IN  IF completed = <<>>
        THEN [playerId |-> player_id, name |-> "Athlete", sport |-> "General",
              team |-> "-", age |-> 0, position |-> "-", riskHistory |-> <<>>,
              pastMatches |-> <<>>, drills |-> <<>>, injuryZones |-> <<>>]
        ELSE [playerId |-> player_id,
              name |-> get(completed[Len(completed)], "playerName", "Athlete"),
              sport |-> get(completed[Len(completed)], "sport", "General"),
              team |-> "-", age |-> 0, position |-> "-",
              riskHistory |->
                  SubSeq(List([k \in 1..Len(completed) |->
                             risk_history_entry(k - 1, completed[k])]),
                         1, Min(10, Len(completed))),
              pastMatches |->
                  SubSeq(List([k \in 1..Len(completed) |->
                             past_match(k - 1, completed[k])]),
                         1, Min(10, Len(completed))),
              drills |-> select_drills(injury_zones),
              injuryZones |-> injury_zones]

\* the profile built from the values of the store; the dash of the
\* placeholders is written "-"
player_profile(store, player_id) ==
    LET completed == SelectSeq(List([i \in 1..Len(store) |-> store[i][2]]),
                         LAMBDA a : get(a, "status", NoValue) = "done")
        injury_zones == injury_zones_of(session_risks(completed))
    IN  IF completed = <<>>
        THEN [playerId |-> player_id, name |-> "Athlete", sport |-> "General",
              team |-> "-", age |-> 0, position |-> "-", riskHistory |-> <<>>,
              pastMatches |-> <<>>, drills |-> <<>>, injuryZones |-> <<>>]
        ELSE [playerId |-> player_id,
              name |-> get(completed[Len(completed)], "playerName", "Athlete"),
              sport |-> get(completed[Len(completed)], "sport", "General"),
              team |-> "-", age |-> 0, position |-> "-",
              riskHistory |->
                  last_ten(List([k \in 1..Len(completed) |->
                               risk_history_entry(k - 1, completed[k])])),
              pastMatches |->
                  last_ten(List([k \in 1..Len(completed) |->
                               past_match(k - 1, completed[k])])),
              drills |-> select_drills(injury_zones),
              injuryZones |-> injury_zones]

\* the player ids that are asked for
PlayerNumbers == {7}

get_player(player_id) ==
    /\ \E profile \in { player_profile(analyses, player_id) } :
         resp' = [endpoint |-> "players", id |-> player_id, code |-> 200,
                  body |-> profile]
    /\ UNCHANGED <<analyses, tasks, files, call>>

(***************************************************************************)
(* Evaluation of the pure functions on bounded inputs.                     *)
(***************************************************************************)
MetricProfiles ==
    { [L_Knee |-> 170, R_Knee |-> 170, L_Hip |-> 170, R_Hip |-> 170, Trunk |-> 5,
       Shoulder_Diff |-> 5, Hip_Diff |-> 5, L_AnkleAngle |-> 100, R_AnkleAngle |-> 100],
      [L_Knee |-> 110, R_Knee |-> 110, L_Hip |-> 95, R_Hip |-> 95, Trunk |-> 40,
       Shoulder_Diff |-> 45, Hip_Diff |-> 45, L_AnkleAngle |-> 125, R_AnkleAngle |-> 125],
      [L_Knee |-> 130, R_Knee |-> 150, L_Hip |-> 120, R_Hip |-> 140, Trunk |-> 30,
       Shoulder_Diff |-> 30, Hip_Diff |-> 20, L_AnkleAngle |-> 115, R_AnkleAngle |-> 125],
      [L_Knee |-> 120, R_Knee |-> 160, L_Hip |-> 100, R_Hip |-> 150, Trunk |-> 35,
       Shoulder_Diff |-> 40, Hip_Diff |-> 26, L_AnkleAngle |-> 121, R_AnkleAngle |-> 110] }

PersonInputs ==
    { [usable |-> u, metric |-> m] : u \in SUBSET Keypoints, m \in MetricProfiles }

\* the longest list of events generate_suggestions is evaluated on
MaxEventList == 3

Parts == { PartSuggestions[i] : i \in 1..Len(PartSuggestions) }

RECURSIVE PartLists(_)
PartLists(n) ==
    IF n = 0 THEN { <<>> }
    ELSE PartLists(n - 1)
         \cup { Append(l, p) : l \in { m \in PartLists(n - 1) : Len(m) = n - 1 },
                               p \in Parts }

\* mean risks around the two band thresholds, as fractions
MeanRisks ==
    { [num |-> 0, den |-> 1], [num |-> 40, den |-> 1], [num |-> 81, den |-> 2],
      [num |-> 60, den |-> 1], [num |-> 121, den |-> 2], [num |-> 65, den |-> 1],
      [num |-> 100, den |-> 1] }

SuggestionInputs ==
    { [events |-> [i \in 1..Len(l) |-> [part |-> l[i]]], avg_risk |-> a] :
          l \in PartLists(MaxEventList), a \in MeanRisks }

\* the whole numbers a composite or a factor's risk can be
Scores == 0..100

\* a factor's recorded peak at the time its event is built
PeakInputs ==
    { [factor |-> f,
       state |-> [active |-> a, start_frame |-> 1, peak_risk |-> r,
                  peak_frame |-> 2, peak_angle |-> NoAngle],
       fps |-> 1] :
          f \in { Factors[i] : i \in 1..Len(Factors) },
          a \in BOOLEAN, r \in { x \in Scores : x >= 30 } }

EngineInit ==
    /\ analyses = <<>>
    /\ tasks = <<>>
    /\ files = {}
    /\ resp = NoResponse
    /\ call \in { [fn |-> "analyze_person", arg |-> p,
                     returned |-> FALSE, ret |-> <<>>] : p \in PersonInputs }
              \cup { [fn |-> "generate_suggestions", arg |-> a,
                       returned |-> FALSE, ret |-> <<>>] : a \in SuggestionInputs }
              \cup { [fn |-> "risk_severity", arg |-> score,
                       returned |-> FALSE, ret |-> <<>>] : score \in Scores }
              \cup { [fn |-> "risk_event", arg |-> a,
                       returned |-> FALSE, ret |-> <<>>] : a \in PeakInputs }

CallAnalyzePerson ==
    /\ call.fn = "analyze_person"
    /\ ~call.returned
    /\ call' = [call EXCEPT !.returned = TRUE, !.ret = analyze_person(call.arg)]
    /\ UNCHANGED <<analyses, tasks, files, resp>>

CallGenerateSuggestions ==
    /\ call.fn = "generate_suggestions"
    /\ ~call.returned
    /\ call' = [call EXCEPT !.returned = TRUE,
                            !.ret = generate_suggestions(call.arg.events,
                                                         call.arg.avg_risk)]
    /\ UNCHANGED <<analyses, tasks, files, resp>>

\* the severity of a score, by the pipeline and by the webcam console
CallRiskSeverity ==
    /\ call.fn = "risk_severity"
    /\ ~call.returned
    /\ call' = [call EXCEPT !.returned = TRUE,
                            !.ret = [severity |-> risk_severity(call.arg),
                                     label |-> risk_label(call.arg)]]
    /\ UNCHANGED <<analyses, tasks, files, resp>>

\* the RiskEvent of a recorded peak
CallRiskEvent ==
    /\ call.fn = "risk_event"
    /\ ~call.returned
    /\ call' = [call EXCEPT !.returned = TRUE,
                            !.ret = risk_event(call.arg.factor, call.arg.state,
                                               call.arg.fps)]
    /\ UNCHANGED <<analyses, tasks, files, resp>>

EngineNext ==
    \/ CallAnalyzePerson
    \/ CallGenerateSuggestions
    \/ CallRiskSeverity
    \/ CallRiskEvent

EngineSpec == EngineInit /\ [][EngineNext]_vars

(***************************************************************************)
(* The service: concurrent uploads, their pipelines and readers.           *)
(***************************************************************************)
VideoIds == {"0a1b2c3d", "4e5f6a7b"}

\* an id that no upload in the model is given
UnknownId == "ffffffff"

MaxUploads == 2

SysFrames == 1

SysFrameInputs == { <<Squat>> }

SysFps == {0}

SysWriter == {TRUE}

NoCall == [fn |-> "none", arg |-> <<>>, returned |-> TRUE, ret |-> <<>>]

Init ==
    /\ analyses = <<>>
    /\ tasks = <<>>
    /\ files = {}
    /\ resp = NoResponse
    /\ call = NoCall

\* a step of the background task of upload t
TaskStep(t) == pipeline_step(t, SysFps, SysWriter, SysFrameInputs, SysFrames)

Next ==
    \/ upload_video(VideoIds, MaxUploads)
    \/ \E t \in 1..MaxUploads : TaskStep(t)
    \/ \E video_id \in VideoIds \cup {UnknownId} : get_analysis(video_id)

Spec == Init /\ [][Next]_vars

\* the thread pool runs every background task that has a step to take
FairSpec == Spec /\ \A t \in 1..MaxUploads : WF_vars(TaskStep(t))

(***************************************************************************)
(* One pipeline run on a video of up to MaxFrames frames: the state right  *)
(* after upload_video has registered the upload, its response, and the     *)
(* steps of process_video.                                                 *)
(***************************************************************************)
MaxFrames == 4

VideoFrameInputs ==
    { <<>>, <<Standing>>, <<Lunge>>, <<Squat>>, <<UpperBody>>,
      <<Squat, Standing>> }

\* cap.get(CAP_PROP_FPS): 0 where the container gives none
VideoFps == {0, 1}

VideoInit ==
    /\ analyses = <<<<"0a1b2c3d", Processing("0a1b2c3d")>>>>
    /\ tasks = <<NewTask("0a1b2c3d")>>
    /\ files = {<<upload_path("0a1b2c3d"), "upload">>}
    /\ resp = NoResponse
    /\ call = NoCall

VideoNext == pipeline_step(1, VideoFps, {TRUE}, VideoFrameInputs, MaxFrames)

VideoSpec == VideoInit /\ [][VideoNext]_vars

(***************************************************************************)
(* What the frames of a run reported for a factor, and the runs of values  *)
(* at or above the activation threshold in it.                             *)
(***************************************************************************)
\* <<frame, value>> for the frames that reported the factor, in frame order
ReportedValues(task, factor) ==
    LET frames == SelectSeq([i \in 1..Len(task.reported) |-> i],
                      LAMBDA i : DictHas(task.reported[i], factor))
    IN  List([k \in 1..Len(frames) |->
            <<frames[k], DictGet(task.reported[frames[k]], factor)>>])

\* the positions of a first value < 30 after a value >= 30
RunEnds(vals) ==
    SelectSeq([k \in 1..Len(vals) |-> k],
        LAMBDA k : k > 1 /\ vals[k][2] < 30 /\ vals[k - 1][2] >= 30)

\* the positions of a value >= 30 that no value >= 30 precedes directly
RunStarts(vals) ==
    SelectSeq([k \in 1..Len(vals) |-> k],
        LAMBDA k : vals[k][2] >= 30 /\ (k = 1 \/ vals[k - 1][2] < 30))

\* where the maximal run that ends at position last begins
RunStart(vals, last) ==
    CHOOSE j \in 1..last :
        /\ \A m \in j..last : vals[m][2] >= 30
        /\ j = 1 \/ vals[j - 1][2] < 30

\* the maximum of the run first..last and the frame that first reached it
RunPeak(vals, first, last) ==
    LET top == CHOOSE v \in { vals[m][2] : m \in first..last } :
                   \A m \in first..last : vals[m][2] <= v
        at  == CHOOSE m \in first..last :
                   /\ vals[m][2] = top
                   /\ \A n \in first..(m - 1) : vals[n][2] # top
    IN  [risk |-> top, frame |-> vals[at][1]]

\* the peaks of the runs that a value < 30 has ended, in order
CompletedRuns(vals) ==
    LET ends == RunEnds(vals)
    IN  List([n \in 1..Len(ends) |->
            RunPeak(vals, RunStart(vals, ends[n] - 1), ends[n] - 1)])

\* the peak of the run that the last reported value is part of, if any
OpenRun(vals) ==
    IF vals # <<>> /\ vals[Len(vals)][2] >= 30
    THEN <<RunPeak(vals, RunStart(vals, Len(vals)), Len(vals))>>
    ELSE <<>>

\* risk and frame of the events of a factor, in the order of the list
EventsOf(events, factor) ==
    LET own == SelectSeq(events, LAMBDA e : e.description = factor)
    IN  List([n \in 1..Len(own) |-> [risk |-> own[n].risk, frame |-> own[n].frame]])

FactorSet == { Factors[i] : i \in 1..Len(Factors) }

\* C1: while the frames of a video are read, the events of every factor are
\* exactly the peaks of its completed runs: one event per maximal run of
\* reported values >= 30 that a reported value < 30 has ended, present from
\* the frame of that value on, with the run's maximum as risk and the first
\* frame that reached the maximum as frame, and no event otherwise.
C1_Hysteresis ==
    \A t \in 1..Len(tasks) :
        tasks[t].pc = "frames" =>
            \A f \in FactorSet :
                EventsOf(tasks[t].risk_events, f)
                    = CompletedRuns(ReportedValues(tasks[t], f))

\* the values 0, 60, 90, 0 of the left knee over four frames gave one event
\* with risk 90 at frame 3
C1_Witness ==
    \E t \in 1..Len(tasks) :
        /\ tasks[t].pc = "frames"
        /\ ReportedValues(tasks[t], "L_ACL")
               = << <<1, 0>>, <<2, 60>>, <<3, 90>>, <<4, 0>> >>
        /\ EventsOf(tasks[t].risk_events, "L_ACL") = <<[risk |-> 90, frame |-> 3]>>

\* the steps of process_video after the frame loop, up to the terminal write
AfterFrames == {"encode", "ffmpeg", "replace", "store"}

\* C2: after the last frame has been read, the events of every factor are
\* the peaks of its completed runs followed by exactly one event with the
\* recorded peak of the run that was still open at the end of the video, if
\* there is one; a factor that ended inactive gets no further event, and the
\* number of events of a factor is its number of activations.
C2_Flush ==
    \A t \in 1..Len(tasks) :
        tasks[t].pc \in AfterFrames =>
            \A f \in FactorSet :
                LET vals == ReportedValues(tasks[t], f)
                    own  == EventsOf(tasks[t].risk_events, f)
                IN  /\ own = CompletedRuns(vals) \o OpenRun(vals)
                    /\ Len(own) = Len(RunStarts(vals))

\* the left knee reported 90, 0, 60, 90: the run that was open at the end of
\* the video gave the second event, with its peak 90 at frame 4
C2_Witness ==
    \E t \in 1..Len(tasks) :
        /\ tasks[t].pc = "encode"
        /\ ReportedValues(tasks[t], "L_ACL")
               = << <<1, 90>>, <<2, 0>>, <<3, 60>>, <<4, 90>> >>
        /\ EventsOf(tasks[t].risk_events, "L_ACL")
               = <<[risk |-> 90, frame |-> 1], [risk |-> 90, frame |-> 4]>>

StatusOf(video_id) ==
    IF DictHas(analyses, video_id) THEN DictGet(analyses, video_id).status
    ELSE "absent"

\* C3: under a scheduler that keeps running every background task, an entry
\* with status processing always comes to status done or error, whichever
\* step of its pipeline fails.
C3_LeavesProcessing ==
    \A video_id \in VideoIds :
        (StatusOf(video_id) = "processing")
            ~> (StatusOf(video_id) \in {"done", "error"})

\* a pipeline failed with an exception and its entry holds the error record
C3_Witness ==
    \E t \in 1..Len(tasks) :
        /\ tasks[t].pc = "finished"
        /\ DictGet(analyses, tasks[t].vid) = ErrorRecord(tasks[t].vid, "exception")

\* C4: an entry that has status done or error is never changed or removed
\* by a later step.
C4_TerminalIsFinal ==
    [][\A video_id \in VideoIds :
          StatusOf(video_id) \in {"done", "error"} =>
              /\ DictHas(analyses', video_id)
              /\ DictGet(analyses', video_id) = DictGet(analyses, video_id)]_vars

DoneFields ==
    {"status", "videoId", "sport", "playerName", "overallRisk",
     "overallSeverity", "fps", "risks", "suggestions", "riskTimeline",
     "annotatedVideoUrl", "totalFrames", "peakRisk"}

\* the placeholder, an error record, or a done record with all its fields
Complete(record) ==
    \/ record = Processing(record.videoId)
    \/ record.status = "error" /\ DOMAIN record = {"status", "videoId", "error"}
    \/ record.status = "done" /\ DOMAIN record = DoneFields

\* C5: at every moment every entry of the store is the complete placeholder
\* or one complete terminal record, and so is every record that
\* GET /analysis returns, however the reads interleave with the pipelines.
C5_CompleteRecords ==
    /\ \A i \in 1..Len(analyses) : Complete(analyses[i][2])
    /\ resp.code = 200 => Complete(resp.body)

\* a read returned a done record with all its fields while another
\* pipeline was still running
C5_Witness ==
    /\ resp.code = 200
    /\ resp.body.status = "done"
    /\ DOMAIN resp.body = DoneFields
    /\ \E t \in 1..Len(tasks) : tasks[t].pc \in {"frames", "ffmpeg", "store"}

\* the steps of process_video before its terminal write, the upload's
\* response having been returned
Running == {"queued", "frames", "encode", "ffmpeg", "replace", "store"}

\* C6: GET /analysis answers 404 for an id no upload was given, and for the
\* id of an upload whose response has been returned and whose pipeline has
\* not made its terminal write it answers with a processing record.
C6_ProcessingUntilTerminal ==
    resp.endpoint = "analysis" =>
        /\ (\A t \in 1..Len(tasks) : tasks[t].vid # resp.id) => resp.code = 404
        /\ (\E t \in 1..Len(tasks) : tasks[t].vid = resp.id /\ tasks[t].pc \in Running)
               => resp.code = 200 /\ resp.body.status = "processing"

KeysOf(events) == { event_key(events[i]) : i \in 1..Len(events) }

\* C7: of the emitted events, exactly one event of every (timestamp, part)
\* pair that occurs is left after deduplication, it has the highest risk of
\* the events with that pair, and every event that is left was emitted.
C7_Deduplication ==
    \A t \in 1..Len(tasks) :
        tasks[t].pc \in AfterFrames =>
            LET emitted == tasks[t].risk_events
                unique  == tasks[t].unique_events
            IN  /\ \A key \in KeysOf(emitted) :
                     /\ Cardinality({ i \in 1..Len(unique) :
                                        event_key(unique[i]) = key }) = 1
                     /\ \A i \in 1..Len(unique), j \in 1..Len(emitted) :
                          event_key(unique[i]) = key /\ event_key(emitted[j]) = key
                              => emitted[j].risk <= unique[i].risk
                /\ \A i \in 1..Len(unique) :
                     \E j \in 1..Len(emitted) : unique[i] = emitted[j]

\* two knee events of one timestamp with risks 60 and 30 were emitted, and
\* of the two the one with risk 60 is left
C7_Witness ==
    \E t \in 1..Len(tasks) :
        /\ tasks[t].pc \in AfterFrames
        /\ \E i, j \in 1..Len(tasks[t].risk_events) :
             LET a == tasks[t].risk_events[i]
                 b == tasks[t].risk_events[j]
             IN  /\ a.part = "knee" /\ b.part = "knee"
                 /\ a.timestamp = b.timestamp
                 /\ a.risk = 60 /\ b.risk = 30
                 /\ \E k \in 1..Len(tasks[t].unique_events) :
                      tasks[t].unique_events[k] = a
                 /\ \A k \in 1..Len(tasks[t].unique_events) :
                      tasks[t].unique_events[k] # b

(***************************************************************************)
(* One pipeline run on a video long enough for more than MAX_EVENTS        *)
(* deduplicated events: one frame a second, all factors at risk or none.   *)
(***************************************************************************)
LongFrames == 9

LongFrameInputs == { <<Squat>>, <<Standing>> }

LongFps == {1}

LongNext == pipeline_step(1, LongFps, BOOLEAN, LongFrameInputs, LongFrames)

LongSpec == VideoInit /\ [][LongNext]_vars

\* C8: the risks list that the terminal write stores has at most 20 events
\* in non-increasing order of risk, all of them deduplicated events, as many
\* as there are up to 20, and no deduplicated event that is left out has a
\* higher risk than an event of the list.
C8_TopTwenty ==
    [][\A t \in 1..Len(tasks) :
          tasks[t].pc = "store" /\ StatusOf(tasks[t].vid)' = "done" =>
              LET stored == DictGet(analyses', tasks[t].vid).risks
                  unique == tasks[t].unique_events
                  kept   == { stored[i] : i \in 1..Len(stored) }
              IN  /\ Len(stored) <= 20
                  /\ Len(stored) = Cardinality(kept)
                  /\ \A i \in 1..(Len(stored) - 1) :
                       stored[i].risk >= stored[i + 1].risk
                  /\ \A e \in kept : \E j \in 1..Len(unique) : unique[j] = e
                  /\ Len(unique) <= 20 => Len(stored) = Len(unique)
                  /\ Len(unique) > 20 => Len(stored) = 20
                  /\ \A j \in 1..Len(unique) :
                       unique[j] \notin kept =>
                           \A e \in kept : unique[j].risk <= e.risk]_vars

\* a done record of a video whose frames alternated between all factors at
\* risk and none, which gives 25 deduplicated events: 20 of them are stored
C8_Witness ==
    \E i \in 1..Len(analyses) :
        /\ analyses[i][2].status = "done"
        /\ analyses[i][2].riskTimeline = <<81, 0, 81, 0, 81, 0, 81, 0, 81>>
        /\ Len(analyses[i][2].risks) = 20
        /\ analyses[i][2].risks[20].risk = 70

\* the weights in hundredths
WeightHundredths ==
    [L_ACL |-> 25, R_ACL |-> 25, L_Hip |-> 10, R_Hip |-> 10, Trunk |-> 12,
     Shoulder_Asym |-> 5, Hip_Asym |-> 5, L_Ankle |-> 4, R_Ankle |-> 4]

\* the weighted sum of the risks over the sum of the weights, truncated to
\* a whole number and capped at 100; 0 where no factor is present
WeightedMean(risks) ==
    LET num == SumSeq(List([i \in 1..Len(risks) |->
                   risks[i][2] * WeightHundredths[risks[i][1]]]))
        den == SumSeq(List([i \in 1..Len(risks) |-> WeightHundredths[risks[i][1]]]))
    IN  IF den = 0 THEN 0 ELSE Min(num \div den, 100)

\* C9: the composite that analyze_person returns is the weighted sum of the
\* present factors' risks divided by the sum of their weights, truncated and
\* capped at 100, a whole number in 0..100.
C9_WeightedMean ==
    call.fn = "analyze_person" /\ call.returned =>
        /\ call.ret.composite = WeightedMean(call.ret.risks)
        /\ call.ret.composite \in 0..100

PositionIn(list, x) == CHOOSE i \in 1..Len(list) : list[i] = x

\* C10: generate_suggestions returns the suggestion of every part that occurs
\* among the events and of no other part, each once and in the order knee,
\* hip, lower_back, shoulder, ankle; after them the high band suggestion when
\* the mean is above 60, else the moderate band suggestion when it is above
\* 40, never both; and the good form suggestion, alone, exactly when there
\* is nothing else.
C10_Suggestions ==
    call.fn = "generate_suggestions" /\ call.returned =>
        LET events == call.arg.events
            mean   == call.arg.avg_risk
            out    == call.ret
            given  == { out[i] : i \in 1..Len(out) }
            present == { events[i].part : i \in 1..Len(events) }
            high   == mean.num > 60 * mean.den
            moderate == ~high /\ mean.num > 40 * mean.den
        IN  /\ Len(out) = Cardinality(given)
            /\ given \subseteq Parts \cup {HighBand, ModerateBand, GoodForm}
            /\ given \cap Parts = present
            /\ \A i, j \in 1..Len(out) :
                 i < j /\ out[i] \in Parts /\ out[j] \in Parts
                     => PositionIn(PartSuggestions, out[i])
                            < PositionIn(PartSuggestions, out[j])
            /\ HighBand \in given <=> high
            /\ ModerateBand \in given <=> moderate
            /\ \A i \in 1..Len(out) :
                 out[i] \in {HighBand, ModerateBand} => i = Len(out)
            /\ GoodForm \in given <=> present = {} /\ ~high /\ ~moderate
            /\ GoodForm \in given => out = <<GoodForm>>

\* events on the shoulder and the knee with mean risk 65 gave the knee, the
\* shoulder and the high band suggestion, in this order
C10_Witness ==
    /\ call.fn = "generate_suggestions"
    /\ call.returned
    /\ call.arg.events = <<[part |-> "shoulder"], [part |-> "knee"]>>
    /\ call.arg.avg_risk = [num |-> 65, den |-> 1]
    /\ call.ret = <<"knee", "shoulder", HighBand>>

(***************************************************************************)
(* Videos without a detected person.                                       *)
(***************************************************************************)
\* the model found no person in any of the frames read so far
NoPersonDetected(task) ==
    \A i \in 1..Len(task.detections) : task.detections[i] = <<>>

\* C11: the terminal write of a run whose video opened and whose frames all
\* had no detected person stores a done record with overallRisk 0, peakRisk
\* 0, one zero in riskTimeline for every frame read, no risks, and the good
\* form suggestion as the only suggestion.
C11_NoPersonVideo ==
    [][\A t \in 1..Len(tasks) :
          pc(t) = "store" /\ NoPersonDetected(tasks[t]) /\ tasks'[t] # tasks[t] =>
              LET record == DictGet(analyses', tasks[t].vid)
              IN  /\ record.status = "done"
                  /\ record.overallRisk = 0
                  /\ record.peakRisk = 0
                  /\ record.totalFrames = Len(tasks[t].detections)
                  /\ record.riskTimeline
                         = [i \in 1..Len(tasks[t].detections) |-> 0]
                  /\ record.risks = <<>>
                  /\ record.suggestions = <<GoodForm>>]_vars

\* a video of three frames without a person is about to be stored as done
\* with the timeline 0, 0, 0 and the good form suggestion
C11_Witness ==
    \E t \in 1..Len(tasks) :
        /\ pc(t) = "store"
        /\ tasks[t].detections = << <<>>, <<>>, <<>> >>
        /\ DoneRecord(tasks[t]).riskTimeline = <<0, 0, 0>>
        /\ DoneRecord(tasks[t]).risks = <<>>
        /\ DoneRecord(tasks[t]).suggestions = <<GoodForm>>

(***************************************************************************)
(* The re-encode step and the files of a run.                              *)
(***************************************************************************)
\* the steps in which the transcoder is started and runs
Transcoding == {"encode", "ffmpeg"}

\* C12: a step of the re-encode never stores an error record and leads on
\* to the replacement of the output, whether the transcoder succeeds, fails
\* or times out; the transcoder is started at most once in a run; and when
\* the done record is stored outputs/{id}.mp4 exists and
\* outputs/{id}_raw.mp4 does not.
C12_TranscodeNeverFails ==
    [][\A t \in 1..Len(tasks) :
          /\ pc(t) \in Transcoding /\ tasks'[t] # tasks[t] =>
                /\ StatusOf(tasks[t].vid)' = "processing"
                /\ tasks'[t].pc \in {"ffmpeg", "replace"}
                /\ tasks'[t].pc # pc(t)
                /\ tasks'[t].ffmpeg_runs <= 1
          /\ pc(t) = "store" /\ StatusOf(tasks[t].vid)' = "done" =>
                /\ path_exists(files', h264_path(tasks[t].vid))
                /\ ~path_exists(files', output_raw(tasks[t].vid))]_vars

(***************************************************************************)
(* One upload, its pipeline, and the read endpoints that are served while  *)
(* it runs.                                                                *)
(***************************************************************************)
ReaderFrames == 3

ReaderFrameInputs == { <<Standing>>, <<Lunge>>, <<Squat>>, <<UpperBody>> }

ReaderFps == {1}

ReaderIds == {"0a1b2c3d", UnknownId}

\* the questions put to the chat: "Is my Knee ok", "overall knee risk",
\* "Overall assessment", "hello", "championship form", "my back"
Questions ==
    { <<"I", "s", " ", "m", "y", " ", "K", "n", "e", "e", " ", "o",
        "k">>,
      <<"o", "v", "e", "r", "a", "l", "l", " ", "k", "n", "e", "e", " ",
        "r", "i", "s", "k">>,
      <<"O", "v", "e", "r", "a", "l", "l", " ", "a", "s", "s", "e", "s",
        "s", "m", "e", "n", "t">>,
      <<"h", "e", "l", "l", "o">>,
      <<"c", "h", "a", "m", "p", "i", "o", "n", "s", "h", "i", "p", " ",
        "f", "o", "r", "m">>,
      <<"m", "y", " ", "b", "a", "c", "k">> }

ReaderNext ==
    \/ pipeline_step(1, ReaderFps, {TRUE}, ReaderFrameInputs, ReaderFrames)
    \/ \E video_id \in ReaderIds : get_annotated_video(video_id)
    \/ \E video_id \in ReaderIds, message \in Questions :
          chat_with_ai(video_id, message)
    \/ \E player_id \in PlayerNumbers : get_player(player_id)

ReaderSpec == VideoInit /\ [][ReaderNext]_vars

\* outputs/{id}.mp4 is the complete deliverable: ffmpeg's finished output or
\* the renamed raw file
Deliverable == {"h264", "mp4v"}

\* C13: GET /outputs/{id}.mp4 answers 404 while the transcoder of that video
\* is running, and what it serves is always the complete final deliverable.
C13_NotFoundUntilTranscoded ==
    resp.endpoint = "outputs" =>
        /\ resp.code = 200 => resp.body.content \in Deliverable
        /\ (\E t \in 1..Len(tasks) : tasks[t].vid = resp.id /\ pc(t) = "ffmpeg")
               => resp.code = 404

\* C14: POST /chat always answers (code 200), and for an id that is
\* unknown or whose entry has status processing or error the answer is the
\* fixed still-processing reply with confidence 0.5 and no
\* relatedTimestamp, whatever the message.
C14_ChatBeforeDone ==
    resp.endpoint = "chat" =>
        /\ resp.code = 200
        /\ StatusOf(resp.id) \in {"absent", "processing", "error"} =>
              /\ resp.body.reply = [template |-> "processing"]
              /\ resp.body.confidence = 50
              /\ resp.body.relatedTimestamp = NoValue

\* "Overall assessment" was asked about a video whose pipeline had failed,
\* and the fixed reply was given
C14_Witness ==
    /\ resp.endpoint = "chat"
    /\ StatusOf(resp.id) = "error"
    /\ resp.message = <<"O", "v", "e", "r", "a", "l", "l", " ", "a", "s", "s", "e", "s", "s", "m", "e", "n", "t">>
    /\ resp.code = 200
    /\ resp.body = StillProcessing

\* C15: for a done entry the reply is chosen in this order: if a stored
\* event matches the message, the reply is about a matched event that no
\* matched event exceeds in risk, with confidence 0.92 and that event's
\* timestamp as relatedTimestamp, also when the message has one of the
\* overview words; else, if the message has an overview word, the overview
\* with confidence 0.93 and no relatedTimestamp; else the session reply
\* with confidence 0.85 and no relatedTimestamp.
C15_ReplyPrecedence ==
    resp.endpoint = "chat" /\ StatusOf(resp.id) = "done" =>
        LET risks == DictGet(analyses, resp.id).risks
            text == lower(resp.message)
            matched == { i \in 1..Len(risks) : risk_matches(risks[i], text) }
            overview == \E w \in 1..Len(overview_words) :
                            substring_in(overview_words[w], text)
            body == resp.body
        IN  /\ resp.code = 200
            /\ IF matched # {}
               THEN /\ body.confidence = 92
                    /\ body.reply.template = "part"
                    /\ \E i \in matched :
                         /\ \A j \in matched : risks[j].risk <= risks[i].risk
                         /\ body.reply.part_name = risks[i].part
                         /\ body.reply.risk = risks[i].risk
                         /\ body.reply.timestamp = risks[i].timestamp
                         /\ body.relatedTimestamp = risks[i].timestamp
               ELSE IF overview
               THEN /\ body.confidence = 93
                    /\ body.reply.template = "overview"
                    /\ body.relatedTimestamp = NoValue
               ELSE /\ body.confidence = 85
                    /\ body.reply.template \in {"session", "no_risks"}
                    /\ body.relatedTimestamp = NoValue

\* "overall knee risk" was asked about a done video with knee events of
\* risk 60 and 90: the reply is about the event of risk 90, with the other
\* one counted, and not the overview
C15_Witness ==
    /\ resp.endpoint = "chat"
    /\ StatusOf(resp.id) = "done"
    /\ resp.message = <<"o", "v", "e", "r", "a", "l", "l", " ", "k", "n", "e", "e", " ", "r", "i", "s", "k">>
    /\ resp.body.confidence = 92
    /\ resp.body.reply.template = "part"
    /\ resp.body.reply.part_name = "knee"
    /\ resp.body.reply.risk = 90
    /\ resp.body.reply.related = 1
    /\ resp.body.relatedTimestamp = resp.body.reply.timestamp
    /\ \E i \in 1..Len(DictGet(analyses, resp.id).risks) :
         /\ DictGet(analyses, resp.id).risks[i].part = "knee"
         /\ DictGet(analyses, resp.id).risks[i].risk = 60

\* the words of a text: its maximal runs of characters other than the space
question_words(text) ==
    LET n == Len(text)
        ends == { p \in (1..n) \X (1..n) :
                    /\ p[1] <= p[2]
                    /\ \A k \in p[1]..p[2] : text[k] # " "
                    /\ p[1] = 1 \/ text[p[1] - 1] = " "
                    /\ p[2] = n \/ text[p[2] + 1] = " " }
    IN  { SubSeq(text, p[1], p[2]) : p \in ends }

\* the keywords of a body part
keyword_set(part) ==
    UNION { { part_keywords[p][2][k] : k \in 1..Len(part_keywords[p][2]) } :
              p \in { q \in 1..Len(part_keywords) : part_keywords[q][1] = part } }

\* C16: for a done entry, the events that count as matched are those whose
\* part has a keyword among the words of the lower-cased message: the reply
\* is the one about a matched event exactly when there is such an event,
\* and it is then about an event of a part with a keyword among the words.
C16_WordMatching ==
    resp.endpoint = "chat" /\ StatusOf(resp.id) = "done" =>
        LET risks == DictGet(analyses, resp.id).risks
            asked == question_words(lower(resp.message))
            matching == { i \in 1..Len(risks) :
                            keyword_set(risks[i].part) \cap asked # {} }
        IN  /\ resp.body.reply.template = "part" <=> matching # {}
            /\ resp.body.reply.template = "part" =>
                   \E i \in matching : risks[i].part = resp.body.reply.part_name

(***************************************************************************)
(* Severity.                                                               *)
(***************************************************************************)
\* the severity bands of a score
SeverityBand(score) ==
    CASE score \in 0..29 -> "LOW"
      [] score \in 30..59 -> "MEDIUM"
      [] score \in 60..79 -> "HIGH"
      [] score \in 80..100 -> "CRITICAL"

\* the name the console gives a band
ConsoleName(severity) == IF severity = "MEDIUM" THEN "MODERATE" ELSE severity

\* the scores next to the thresholds and their severities
Boundaries ==
    { <<29, "LOW">>, <<30, "MEDIUM">>, <<59, "MEDIUM">>, <<60, "HIGH">>,
      <<79, "HIGH">>, <<80, "CRITICAL">> }

\* C17: risk_severity gives every score in 0..100 the severity of its band
\* (LOW below 30, MEDIUM below 60, HIGH below 80, CRITICAL from 80 on), the
\* console's risk_label gives the same band with MEDIUM named MODERATE, the
\* scores 29, 30, 59, 60, 79 and 80 get LOW, MEDIUM, MEDIUM, HIGH, HIGH and
\* CRITICAL, and the severity of a RiskEvent is the band of its risk.
C17_SeverityBands ==
    /\ call.fn = "risk_severity" /\ call.returned =>
          /\ call.ret.severity = SeverityBand(call.arg)
          /\ call.ret.label = ConsoleName(SeverityBand(call.arg))
          /\ \A b \in Boundaries : call.arg = b[1] => call.ret.severity = b[2]
    /\ call.fn = "risk_event" /\ call.returned =>
          /\ call.ret.risk = call.arg.state.peak_risk
          /\ call.ret.severity = SeverityBand(call.ret.risk)
    /\ \A i \in 1..Len(analyses) :
          analyses[i][2].status = "done" =>
              /\ analyses[i][2].overallSeverity
                     = SeverityBand(analyses[i][2].overallRisk)
              /\ \A k \in 1..Len(analyses[i][2].risks) :
                     analyses[i][2].risks[k].severity
                         = SeverityBand(analyses[i][2].risks[k].risk)

\* the score 30 was given MEDIUM by the pipeline and MODERATE by the console
C17_Witness ==
    /\ call.fn = "risk_severity"
    /\ call.returned
    /\ call.arg = 30
    /\ call.ret = [severity |-> "MEDIUM", label |-> "MODERATE"]

(***************************************************************************)
(* The profile endpoint on the store after several uploads: every entry is *)
(* the placeholder of a queued upload, the error record of a video that    *)
(* could not be opened, or the done record of a video of one frame.        *)
(***************************************************************************)
\* the longest store
MaxStore == 13

\* the longest store of the stores with every mix of entries
MaxMixed == 3

\* the ids of the uploads, in upload order
UploadIds ==
    << "1a2b3c01", "1a2b3c02", "1a2b3c03", "1a2b3c04", "1a2b3c05",
       "1a2b3c06", "1a2b3c07", "1a2b3c08", "1a2b3c09", "1a2b3c0a",
       "1a2b3c0b", "1a2b3c0c", "1a2b3c0d", "1a2b3c0e", "1a2b3c0f",
       "1a2b3c10" >>

\* the record process_video stores for a video of one frame at 30 fps, given
\* what the model detects in it
one_frame_record(video_id, persons) ==
    LET last == analyzed[persons[Len(persons)]]
        detected == detect_events(last.risks, last.details, 1, 30, <<>>, <<>>)
        unique_events == deduplicate(detected[2] \o flush_events(detected[1], 30))
        scores == <<frame_max(persons)>>
    IN  DoneRecord([NewTask(video_id) EXCEPT
            !.frame_count = 1,
            !.all_risk_scores = scores,
            !.unique_events = unique_events,
            !.overall_risk = scores[1],
            !.peak_risk = scores[1],
            !.suggestions = generate_suggestions(unique_events,
                                [num |-> scores[1], den |-> 1])])

Queued == [status |-> "processing"]

Unopened == [status |-> "error"]

Video(person) == [status |-> "done", person |-> person]

\* the entry, the task and the files of an upload of the given kind
upload_entry(video_id, kind) ==
    CASE kind.status = "processing" -> Processing(video_id)
      [] kind.status = "error" -> ErrorRecord(video_id, "Could not open video file")
      [] kind.status = "done" -> one_frame_record(video_id, <<kind.person>>)

upload_task(video_id, kind) ==
    IF kind.status = "processing"
    THEN [NewTask(video_id) EXCEPT !.pc = "queued"]
    ELSE Finished(NewTask(video_id))

upload_files(video_id, kind) ==
    IF kind.status = "done"
    THEN { <<upload_path(video_id), "upload">>, <<h264_path(video_id), "h264">> }
    ELSE { <<upload_path(video_id), "upload">> }

MixedKinds ==
    { Queued, Unopened, Video(LowerLeg), Video(UpperBody), Video(Hips), Video(Squat) }

RECURSIVE KindLists(_)
KindLists(n) ==
    IF n = 0 THEN { <<>> }
    ELSE KindLists(n - 1)
         \cup { Append(l, k) : l \in { m \in KindLists(n - 1) : Len(m) = n - 1 },
                               k \in MixedKinds }

\* the videos of a long series of uploads, over and over
Sessions == <<Squat, Lunge, UpperBody, Standing, LowerLeg>>

Session(k) == Video(Sessions[((k - 1) % Len(Sessions)) + 1])

\* series of n uploads: all done; every third queued and every third
\* unopened; every sixth queued
Series(n) ==
    { [k \in 1..n |-> Session(k)],
      [k \in 1..n |-> IF k % 3 = 0 THEN Queued
                       ELSE IF k % 3 = 2 THEN Unopened ELSE Session(k)],
      [k \in 1..n |-> IF k % 6 = 0 THEN Queued ELSE Session(k)] }

UploadSeries == KindLists(MaxMixed) \cup UNION { Series(n) : n \in 0..MaxStore }

PlayerInit ==
    /\ \E kinds \in UploadSeries :
         /\ analyses = List([k \in 1..Len(kinds) |->
                             <<UploadIds[k], upload_entry(UploadIds[k], kinds[k])>>])
         /\ tasks = List([k \in 1..Len(kinds) |->
                             upload_task(UploadIds[k], kinds[k])])
         /\ files = UNION { upload_files(UploadIds[k], kinds[k]) :
                               k \in 1..Len(kinds) }
    /\ resp = NoResponse
    /\ call = NoCall

PlayerNext == \E player_id \in PlayerNumbers : get_player(player_id)

PlayerSpec == PlayerInit /\ [][PlayerNext]_vars

\* the done entries of the store, in the order of the store
DoneEntries ==
    SelectSeq(List([i \in 1..Len(analyses) |-> analyses[i][2]]),
              LAMBDA a : a.status = "done")

\* the parts of the events of the done entries
EventParts ==
    UNION { { a.risks[k].part : k \in 1..Len(a.risks) } :
              a \in { DoneEntries[i] : i \in 1..Len(DoneEntries) } }

\* C18: with n done entries in the store, riskHistory and pastMatches of
\* the profile each have min(n, 10) entries, those of the last min(n, 10)
\* done entries in the order of the store, each with its place among all
\* done entries as session number and with that entry's overallRisk;
\* entries that are not done add nothing, to the injury zones either; and
\* with n = 0 the four lists are empty and name, sport, team, age and
\* position are the placeholders.
C18_PlayerHistory ==
    resp.endpoint = "players" =>
        LET n == Len(DoneEntries)
            m == Min(n, 10)
            body == resp.body
        IN  /\ resp.code = 200
            /\ Len(body.riskHistory) = m
            /\ Len(body.pastMatches) = m
            /\ \A k \in 1..m :
                 LET i == n - m + k
                 IN  /\ body.riskHistory[k]
                            = [date |-> <<"Session", i>>,
                               risk |-> DoneEntries[i].overallRisk,
                               label |-> <<"Session", i>>]
                     /\ body.pastMatches[k].date = <<"Session", i>>
                     /\ body.pastMatches[k].riskScore = DoneEntries[i].overallRisk
                     /\ body.pastMatches[k].status = "Completed"
            /\ { body.injuryZones[z].part : z \in 1..Len(body.injuryZones) }
                   = EventParts
            /\ n = 0 =>
                   body = [playerId |-> resp.id, name |-> "Athlete",
                           sport |-> "General", team |-> "-", age |-> 0,
                           position |-> "-", riskHistory |-> <<>>,
                           pastMatches |-> <<>>, drills |-> <<>>,
                           injuryZones |-> <<>>]

\* the store holds eleven done entries and two placeholders: the histories
\* run from session 2 to session 11
C18_Witness ==
    /\ resp.endpoint = "players"
    /\ Len(analyses) = 13
    /\ Len(DoneEntries) = 11
    /\ Len(resp.body.riskHistory) = 10
    /\ resp.body.riskHistory[1].label = <<"Session", 2>>
    /\ resp.body.riskHistory[1].risk = DoneEntries[2].overallRisk
    /\ resp.body.pastMatches[10].date = <<"Session", 11>>

\* the parts and the target areas of the catalog's drills, in its order
CatalogParts == <<"knee", "shoulder", "lower_back", "hip">>

CatalogAreas == <<"Knee", "Shoulder", "Lower Back", "Hip">>

\* C19: the profile has one injury zone for every part that occurs among
\* the events of the done entries; a drill of the catalog is in the profile
\* exactly when its part is among the injury zones; the drills stand in the
\* order of the catalog and have the ids 1, 2, ..., k; and with the ankle
\* as the only injury zone there is no drill.
C19_Drills ==
    resp.endpoint = "players" =>
        LET zones == { resp.body.injuryZones[z].part :
                          z \in 1..Len(resp.body.injuryZones) }
            drills == resp.body.drills
            place(d) == CHOOSE c \in 1..Len(CatalogAreas) :
                            CatalogAreas[c] = drills[d].targetArea
        IN  /\ zones = EventParts
            /\ Len(resp.body.injuryZones) = Cardinality(zones)
            /\ \A d \in 1..Len(drills) :
                 /\ \E c \in 1..Len(CatalogAreas) :
                      CatalogAreas[c] = drills[d].targetArea
                 /\ drills[d].id = d
                 /\ drills[d] = drill(d, drill_catalog[place(d)])
            /\ \A c \in 1..Len(CatalogParts) :
                 (\E d \in 1..Len(drills) : drills[d].targetArea = CatalogAreas[c])
                     <=> CatalogParts[c] \in zones
            /\ \A d, e \in 1..Len(drills) : d < e => place(d) < place(e)
            /\ zones = {"ankle"} => drills = <<>>

\* the done videos gave events on the shoulder and on the hip only: the
\* shoulder drill has id 1 and the hip drill id 2
C19_Witness ==
    /\ resp.endpoint = "players"
    /\ EventParts = {"shoulder", "hip"}
    /\ Len(resp.body.drills) = 2
    /\ resp.body.drills[1].id = 1 /\ resp.body.drills[1].targetArea = "Shoulder"
    /\ resp.body.drills[2].id = 2 /\ resp.body.drills[2].targetArea = "Hip"

(***************************************************************************)
(* Frames with several detected persons.                                   *)
(***************************************************************************)
\* the composites of the persons of a frame
Composites(persons) ==
    { analyzed[persons[k]].composite : k \in 1..Len(persons) }

\* <<frame, value>> of a factor for the frames whose person iterated last
\* has the factor, in frame order
LastPersonValues(task, factor) ==
    LET last(i) == analyzed[task.detections[i][Len(task.detections[i])]]
        frames == SelectSeq([i \in 1..Len(task.detections) |-> i],
                      LAMBDA i : /\ task.detections[i] # <<>>
                                 /\ DictHas(last(i).risks, factor))
    IN  List([k \in 1..Len(frames) |->
            <<frames[k], DictGet(last(frames[k]).risks, factor)>>])

\* C20: the timeline entry of every frame is the largest composite of the
\* frame's persons (0 without a person), while the factors the frame hands
\* to the event detection are those of the person iterated last: the events
\* of every factor are the peaks of the runs of that person's values alone,
\* each with the angle that person had at the peak frame.
C20_LastPersonFactors ==
    \A t \in 1..Len(tasks) :
        pc(t) \in {"frames"} \cup AfterFrames =>
            LET task == tasks[t]
                last(i) == analyzed[task.detections[i][Len(task.detections[i])]]
            IN  /\ Len(task.all_risk_scores) = Len(task.detections)
                /\ \A i \in 1..Len(task.detections) :
                     /\ task.all_risk_scores[i]
                            \in Composites(task.detections[i]) \cup {0}
                     /\ \A c \in Composites(task.detections[i]) :
                            c <= task.all_risk_scores[i]
                     /\ task.reported[i] = IF task.detections[i] = <<>> THEN <<>>
                                           ELSE last(i).risks
                /\ \A f \in FactorSet :
                     \A vals \in {LastPersonValues(task, f)} :
                         EventsOf(task.risk_events, f)
                             = CompletedRuns(vals)
                               \o (IF pc(t) = "frames" THEN <<>>
                                   ELSE OpenRun(vals))
                /\ \A k \in 1..Len(task.risk_events) :
                     task.risk_events[k].angle
                         = detail_angle(last(task.risk_events[k].frame).details,
                                        task.risk_events[k].description)

\* two frames with a squatting person first and a standing person last: the
\* timeline holds the squatting person's composite 81 twice, and no factor
\* of that person gave an event
C20_Witness ==
    \E t \in 1..Len(tasks) :
        /\ pc(t) \in AfterFrames
        /\ tasks[t].detections = << <<Squat, Standing>>, <<Squat, Standing>> >>
        /\ tasks[t].all_risk_scores = <<81, 81>>
        /\ tasks[t].reported[1] = analyzed[Standing].risks
        /\ tasks[t].risk_events = <<>>

(***************************************************************************)
(* One pipeline run on a video of up to SoloFrames frames that show at     *)
(* most one person each, some of them with part of the body out of view.   *)
(***************************************************************************)
SoloFrames == 3

SoloFrameInputs ==
    { <<>>, <<Standing>>, <<Lunge>>, <<Squat>>, <<UpperBody>>, <<LowerLeg>>,
      <<Hips>> }

SoloNext == pipeline_step(1, VideoFps, {TRUE}, SoloFrameInputs, SoloFrames)

SoloSpec == VideoInit /\ [][SoloNext]_vars

\* the detection state of a factor, <<>> before the factor's first report
FactorStateOf(task, factor) ==
    IF DictHas(task.factor_states, factor)
    THEN <<DictGet(task.factor_states, factor)>> ELSE <<>>

Active(task, factor) ==
    /\ DictHas(task.factor_states, factor)
    /\ DictGet(task.factor_states, factor).active

\* what the latest frame of the run reports for a factor: <<value>>, or
\* <<>> without a person or when the person iterated last lacks the factor
FrameValue(task, factor) ==
    LET persons == task.detections[Len(task.detections)]
        risks == analyzed[persons[Len(persons)]].risks
    IN  IF persons # <<>> /\ DictHas(risks, factor)
        THEN <<DictGet(risks, factor)>> ELSE <<>>

\* C21: a frame that does not report a factor leaves the factor's detection
\* state as it was and appends no event of the factor; and as long as the run
\* goes on, an active factor stays active without a new event of it, except
\* in a frame that reports a value below 30 for it and at the flush at the
\* end of the video, which both append exactly the event of its peak.
C21_UnreportedFactor ==
    [][\A t \in 1..Len(tasks), f \in FactorSet :
          LET before == tasks[t]
              after  == tasks'[t]
              frame  == /\ before.pc = "frames" /\ after.pc = "frames"
                        /\ after.frame_count = before.frame_count + 1
              peak   == risk_event(f, DictGet(before.factor_states, f), before.fps)
              same   == EventsOf(after.risk_events, f)
                            = EventsOf(before.risk_events, f)
              ended  == EventsOf(after.risk_events, f)
                            = EventsOf(before.risk_events, f)
                              \o <<[risk |-> peak.risk, frame |-> peak.frame]>>
          IN  /\ frame /\ FrameValue(after, f) = <<>> =>
                    /\ FactorStateOf(after, f) = FactorStateOf(before, f)
                    /\ after.risk_events = before.risk_events
              /\ before.pc = "frames" /\ after.pc \in {"frames", "encode"}
                    /\ Active(before, f) =>
                    \/ Active(after, f) /\ same /\ after.pc = "frames"
                    \/ /\ frame /\ FrameValue(after, f) # <<>>
                       /\ FrameValue(after, f)[1] < 30
                       /\ ~Active(after, f) /\ ended
                    \/ after.pc = "encode" /\ ended]_vars

\* the left knee became active in frame 1; frame 2 showed nobody and frame 3
\* a person of whom only the shoulders are usable: the factor is still
\* active with its peak of frame 1 and has no event
C21_Witness ==
    \E t \in 1..Len(tasks) :
        /\ pc(t) = "frames"
        /\ tasks[t].detections = << <<Squat>>, <<>>, <<UpperBody>> >>
        /\ FrameValue(tasks[t], "L_ACL") = <<>>
        /\ Active(tasks[t], "L_ACL")
        /\ DictGet(tasks[t].factor_states, "L_ACL").peak_frame = 1
        /\ EventsOf(tasks[t].risk_events, "L_ACL") = <<>>

(***************************************************************************)
(* Headline scores and events of a video with at most one person a frame.  *)
(***************************************************************************)
\* the largest factor risk that the persons of a frame have, 0 without one
LargestFactorRisk(persons) ==
    LET risks(k) == analyzed[persons[k]].risks
    IN  MaxSeq(<<0>> \o List([k \in 1..Len(persons) |->
                   MaxSeq(<<0>> \o List([i \in 1..Len(risks(k)) |-> risks(k)[i][2]]))]))

AtMostOnePerson(task) ==
    \A i \in 1..Len(task.detections) : Len(task.detections[i]) <= 1

\* C22: the record that store_done stores for a video with at most one
\* person in every frame has one timeline entry per frame, none above the
\* largest factor risk of its frame and none above 90; peakRisk is the
\* largest entry (0 without frames) and overallRisk is not above it; and
\* with peakRisk >= 30 the record has a risk event and does not carry the
\* "maintain current form" suggestion.
C22_HeadlineAgreesWithEvents ==
    [][\A t \in 1..Len(tasks) :
          pc(t) = "store" /\ AtMostOnePerson(tasks[t]) /\ tasks'[t] # tasks[t] =>
              LET record == DictGet(analyses', tasks[t].vid)
                  frames == tasks[t].detections
              IN  /\ record.status = "done"
                  /\ Len(record.riskTimeline) = record.totalFrames
                  /\ record.totalFrames = Len(frames)
                  /\ \A i \in 1..Len(frames) :
                       /\ record.riskTimeline[i] <= LargestFactorRisk(frames[i])
                       /\ record.riskTimeline[i] <= 90
                  /\ record.peakRisk = MaxSeq(<<0>> \o record.riskTimeline)
                  /\ record.overallRisk <= record.peakRisk
                  /\ record.peakRisk >= 30 =>
                       /\ record.risks # <<>>
                       /\ \A k \in 1..Len(record.suggestions) :
                            record.suggestions[k] # GoodForm]_vars

\* a stored record of three frames of which one showed only the shoulders
\* of a person, 45 px apart in height: peakRisk is 70, the frame before it
\* scored 0, and the shoulder event is in the risks
C22_Witness ==
    \E i \in 1..Len(analyses) :
        LET record == analyses[i][2]
        IN  /\ record.status = "done"
            /\ record.riskTimeline = <<0, 70, 0>>
            /\ record.peakRisk = 70
            /\ record.overallRisk = 23
            /\ Len(record.risks) = 1
            /\ record.risks[1].part = "shoulder"
            /\ record.risks[1].risk = 70

=============================================================================
